---- MODULE Spec2Model ----
(***************************************************************************)
(* Verification model of the point-cloud ingestion and rasterization core  *)
(* of point2dem (asp/Core/PointUtils.cc, asp/Core/Common.tcc,              *)
(* asp/Tools/point2dem.cc).                                                *)
(*                                                                         *)
(* The module holds several specifications, one per subsystem:             *)
(*   SpecFormat  CsvConv::parse_csv_format on a format descriptor          *)
(*   SpecParse   CsvConv::parse_csv_line on one line                       *)
(*   SpecReader  CsvReader::ReadNextPoint over a whole text source         *)
(*   SpecConv    CsvConv::csv_to_cartesian / cartesian_to_csv              *)
(*   SpecTif     las_or_csv_to_tif: reader, composite, single-thread write *)
(*   SpecEstim   ErrorRangeEstimAccum                                      *)
(* Every specification leaves the variables of the other subsystems at     *)
(* their idle values.                                                      *)
(***************************************************************************)
EXTENDS Integers, Sequences, FiniteSets, TLC

VARIABLES
  \* ---- parse_csv_format
  descriptor,        \* the tokenized format string: a sequence of [col, name]
  conv,              \* the CsvConv object after parse_csv_format
  fmt_status,        \* "idle", "ok", "ArgumentErr", "crash"
  \* ---- parse_csv_line
  line,              \* the line handed to parse_csv_line, as its tokens
  line_conv,         \* the CsvConv the line is parsed with
  is_first_line,     \* the in/out flag of parse_csv_line
  parsed,            \* the result of the call, or NoResult before it
  line_length,       \* the number of characters of the line
  overrun,           \* TRUE once strtok has read past the end of temp
  \* ---- CsvReader
  m_file,            \* the lines of the text source
  m_conv,            \* CsvReader::m_csv_conv
  m_pos,             \* number of lines consumed from m_ifs so far
  m_is_first_line,   \* CsvReader::m_is_first_line
  m_has_valid_point, \* CsvReader::m_has_valid_point
  m_curr_point,      \* line number the current point was parsed from (0: none)
  rd_status,         \* "open", "eof", "IOErr"
  rd_calls,          \* number of ReadNextPoint calls made
  rd_skipped,        \* line numbers consumed after a failed parse, no error
  rd_points,         \* line numbers returned as points, in order
  \* ---- csv_to_cartesian / cartesian_to_csv
  cv_conv,           \* the CsvConv doing the conversion
  cv_datum,          \* the datum of the GeoReference handed in (its Flattening)
  cv_rec,            \* CsvRecord::point_data: three values in file column order
  cv_mean,           \* mean_longitude
  cv_xyz,            \* the result of csv_to_cartesian
  cv_csv,            \* the result of cartesian_to_csv
  cv_pc,             \* "idle", "start", "forward", "done"
  \* ---- las_or_csv_to_tif
  in_file,           \* the source: its kind, its points, its header
  csv_georef,        \* the GeoReference the caller hands to las_or_csv_to_tif
  num_rows,          \* the number of rows the caller asks for
  num_threads,       \* the number of threads of the settings
  raster_tile_size,  \* opt->raster_tile_size
  original_tile_size,\* the local of las_or_csv_to_tif of that name
  TILE_LEN,          \* the tile length of the conversion
  m_num_points,      \* BaseReader::m_num_points
  m_has_georef,      \* BaseReader::m_has_georef
  m_georef,          \* BaseReader::m_georef
  m_rows,            \* LasOrCsvToTif_Class::m_rows
  m_cols,            \* LasOrCsvToTif_Class::m_cols
  num_read,          \* points the reader has given out so far
  next_tile,         \* the next tile the writer hands out (from 0, row-major)
  in_flight,         \* tiles whose prerasterize call is running
  tiles,             \* tiles written, in order: tile, points, reference used
  tif_pc,            \* "idle", "start", "writing", "done", or the error thrown
  \* ---- ErrorRangeEstimAccum
  samples,               \* the error values the accumulator is called with
  num_fed,               \* how many of them it has been called with
  m_vals,                \* ErrorRangeEstimAccum::m_vals
  remove_outliers_params,\* <<percentile, factor>>
  val,                   \* the value returned by value()
  est_pc,                \* "idle", "feeding", "done", "ArgumentErr"
  \* ---- the sampling of the error image in main
  point_image_cols,      \* point_image.cols() (the image has one row)
  error_image,           \* the error norm at the pixels that can be nonzero
  loop_count,                 \* the loop variable of the sampling loop
  subsample_steps,       \* subsample_amt of each attempt made, in order
  loop_success,               \* the local of main of that name
  estim_max_error,       \* the local of main of that name
  rasterizer,            \* what the rasterizer is constructed with
  smp_pc,                \* "idle", "loop", "after", "rasterize"
  \* ---- FillNoDataWithAvg
  m_img,                 \* FillNoDataWithAvg::m_img, indexed [col][row] from 0
  m_kernel_size,         \* FillNoDataWithAvg::m_kernel_size
  filled,                \* the image rasterized from the view
  fill_pc,               \* "idle", "start", "view", "done", "ArgumentErr"
  \* ---- a run of point2dem (main)
  input_files,           \* the positional arguments of the command line
  opt,                   \* Options
  io,                    \* the file system operations made so far, in order
  tmp_tifs,              \* the local of main of that name
  outputs,               \* the calls of do_software_rasterization, in order
  base_out_prefix,       \* the local of do_software_rasterization_multi_spacing
  loop_i,                \* the index of the loop main is in (from 1)
  run_error,             \* the message of the exception thrown, or ""
  run_pc,                \* the position of main
  \* ---- the tiles of an output raster (block_write_gdal_image)
  bins,                  \* the binned points, read by every tile
  max_valid_error,       \* the error threshold of the run
  tile_threads,          \* opt.num_threads
  tile_status,           \* per tile: "todo", "computing" or "written"
  tile_buf,              \* per tile: the cells a worker has computed
  dem,                   \* the output raster: per tile its cells once written
  write_order,           \* the tiles in the order they were written
  overlapped,            \* TRUE once two tiles were being computed at once
  tile_pc,
  \* ---- the channels of the point clouds (num_channels and its callers)
  channels,              \* get_num_channels of each file of opt.pointcloud_files
  chan_opt,              \* the options main and do_software_rasterization read
  channels_seen,         \* the values num_channels returned, in order
  written,               \* the names of the images save_image was called for
  chan_error,            \* the exception thrown, or ""
  user_opt,              \* the options as given on the command line
  sampling_ran,          \* TRUE once the sampling pass of main was entered
  chan_estim_max_error,  \* the local estim_max_error of main
  rasterizer_args,       \* the arguments the rasterizer was constructed with
  chan_pc,
  \* ---- save_image and save_with_temp_big_blocks
  hole_fill_len,         \* the argument of save_image
  image_side,            \* the side of the image to save, in pixels
  save_tile_size,        \* opt.raster_tile_size
  orig_block_size,       \* the local of save_with_temp_big_blocks
  output_file,           \* the file at the final name, or Absent
  big_tmp_file,          \* the file at the name with extension .tmp.tif, or Absent
  save_error,            \* the exception thrown, or ""
  save_pc,
  \* ---- RoundImagePixelsSkipNoData
  round_pt,              \* the pixel handed to operator(), a sequence of channels
  m_scale,               \* the rounding step
  m_nodata,              \* the nodata value
  rounded,               \* the pixel returned
  round_pc,
  \* ---- do_software_rasterization_multi_spacing and do_software_rasterization
  sp_cloud,              \* the point cloud: position -> height, error, intensity
  sp_opt,                \* the options as main hands them over
  sp_rounding_error,     \* opt.rounding_error
  sp_rasterizer,         \* the OrthoRasterizerView shared by the spacings
  sp_georef,             \* the pixel size of the georeference transform
  sp_images,             \* the images save_image was called for, in order
  sp_i,                  \* the index of the spacing loop (from 1)
  sp_pc

fmtVars    == <<descriptor, conv, fmt_status>>
lineVars   == <<line, line_conv, is_first_line, parsed, line_length, overrun>>
readerVars == <<m_file, m_conv, m_pos, m_is_first_line, m_has_valid_point,
                m_curr_point, rd_status, rd_calls, rd_skipped, rd_points>>
convVars   == <<cv_conv, cv_datum, cv_rec, cv_mean, cv_xyz, cv_csv, cv_pc>>
tifVars    == <<in_file, csv_georef, num_rows, num_threads, raster_tile_size, original_tile_size, TILE_LEN,
                m_num_points, m_has_georef, m_georef, m_rows, m_cols, num_read,
                next_tile, in_flight, tiles, tif_pc>>
estVars    == <<samples, num_fed, m_vals, remove_outliers_params, val, est_pc>>
coreVars   == <<fmtVars, lineVars, readerVars, convVars, tifVars, estVars>>
tileVars   == <<bins, max_valid_error, tile_threads, tile_status, tile_buf, dem,
                write_order, overlapped, tile_pc>>
chanVars   == <<channels, chan_opt, channels_seen, written, chan_error, user_opt,
                sampling_ran, chan_estim_max_error, rasterizer_args, chan_pc>>
saveVars   == <<hole_fill_len, image_side, save_tile_size, orig_block_size, output_file,
                big_tmp_file, save_error, save_pc>>
roundVars  == <<round_pt, m_scale, m_nodata, rounded, round_pc>>
rastVars   == <<sp_cloud, sp_opt, sp_rounding_error, sp_rasterizer, sp_georef, sp_images,
                sp_i, sp_pc>>
postVars   == <<roundVars, rastVars>>
auxVars    == <<tileVars, chanVars, saveVars, postVars>>
smpVars    == <<point_image_cols, error_image, loop_count, subsample_steps, loop_success,
                estim_max_error, rasterizer, smp_pc>>
fillVars   == <<m_img, m_kernel_size, filled, fill_pc>>
runVars    == <<input_files, opt, io, tmp_tifs, outputs, base_out_prefix, loop_i,
                run_error, run_pc>>
mainVars   == <<smpVars, fillVars, runVars, auxVars>>
vars       == <<coreVars, mainVars>>

-----------------------------------------------------------------------------
(* Bounds of the model *)

\* longest format descriptor, in fields
MaxFields == 4
\* longest line, in tokens
MaxTokens == 4
\* longest text source, in lines
MaxLines == 3
\* longitudes run over the multiples of 90 degrees up to MaxQuarterTurns
MaxQuarterTurns == 3
\* largest flattening of a datum (0: a sphere)
MaxFlattening == 1
\* radius of the datum, in the units of heights and radii
DatumRadius == 10
\* units of easting and northing per degree of the planar projection
ProjScale == 2
\* most points in a source
MaxPoints == 6
\* largest number of rows asked of the composite
MaxRows == 3
\* largest tile length (the source's TILE_LEN is 2048)
MaxTileLen == 2
\* most threads of the settings
MaxThreads == 2
\* most error values in a sample
MaxSamples == 3
\* largest error value of a sample
MaxError == 3
\* largest outlier factor
MaxFactor == 3
\* largest exponent of the width of a point image, a power of two
MaxWidthExp == 20
\* largest side of an image given to FillNoDataWithAvg, in pixels
MaxSide == 2
\* largest kernel size given to FillNoDataWithAvg
MaxKernel == 3
\* most input files on a command line
MaxTiles == 3
MaxWorkers == 2
MaxClouds == 2
MaxBlocks == 4
MaxInputs == 2
MaxValue == 3
MaxStep == 3
MaxEstimate == 2
MaxPos == 3
MaxHeight == 1
MaxSpacings == 2

-----------------------------------------------------------------------------
(* Generic helpers *)

Min(a, b) == IF a < b THEN a ELSE b
Max(a, b) == IF a > b THEN a ELSE b

\* std::map insertion m[k] = v
Put(m, k, v) == [x \in (DOMAIN m) \cup {k} |-> IF x = k THEN v ELSE m[x]]

EmptyMap == << >>

SeqsUpTo(S, n) == UNION {[1..k -> S] : k \in 0..n}

-----------------------------------------------------------------------------
(* CsvConv::parse_csv_format *)

\* The column names of get_sorted_index_for_name, and one name it does not
\* know. The sequence is in the order std::map<std::string,int> iterates.
NameOrder == <<"bogus", "easting", "file", "height_above_datum", "lat", "lon",
               "northing", "radius_km", "radius_m", "x", "y", "z">>

FieldNames == {NameOrder[i] : i \in DOMAIN NameOrder}

\* const int NUM_POINT_VALS = 3
NUM_POINT_VALS == 3
MIN_NUM_TARGETS == NUM_POINT_VALS
MAX_NUM_TARGETS == NUM_POINT_VALS + 1

\* -1 stands for the ArgumentErr "Unsupported column name"
get_sorted_index_for_name(name) ==
  CASE name = "file"               -> 3
    [] name = "lon"                -> 0
    [] name = "lat"                -> 1
    [] name = "radius_m"           -> 2
    [] name = "radius_km"          -> 2
    [] name = "x"                  -> 0
    [] name = "y"                  -> 1
    [] name = "z"                  -> 2
    [] name = "easting"            -> 0
    [] name = "northing"           -> 1
    [] name = "height_above_datum" -> 2
    [] OTHER                       -> -1

\* The default-constructed CsvConv (also the state after an empty descriptor).
DefaultConv ==
  [name2col |-> EmptyMap, col2name |-> EmptyMap, col2sort |-> EmptyMap,
   num_targets |-> 0, format |-> "none"]

\* while (is.good()) { is >> col >> name; col--; ... }   (lines 389-402)
RECURSIVE ReadFields(_, _, _, _)
ReadFields(desc, i, n2c, c2n) ==
  IF i > Len(desc)
  THEN [err |-> FALSE, name2col |-> n2c, col2name |-> c2n]
  ELSE LET col  == desc[i].col - 1
           name == desc[i].name
       IN IF col < 0 \/ col \in DOMAIN c2n
          THEN [err |-> TRUE, name2col |-> n2c, col2name |-> c2n]
          ELSE ReadFields(desc, i + 1, Put(n2c, name, col), Put(c2n, col, name))

\* The loop over name2col that fills sorted_names and col2sort (lines 439-445).
\* j walks NameOrder, the iteration order of the map. sorted_names has
\* num_targets entries, indexed from 0; a write at an index >= num_targets is
\* outside the vector: it is recorded in oob and leaves the vector as it was.
RECURSIVE SortNames(_, _, _, _, _)
SortNames(n2c, j, sorted, c2s, oob) ==
  IF j > Len(NameOrder)
  THEN [err |-> FALSE, sorted_names |-> sorted, col2sort |-> c2s, oob |-> oob]
  ELSE LET name == NameOrder[j] IN
       IF name \notin DOMAIN n2c
       THEN SortNames(n2c, j + 1, sorted, c2s, oob)
       ELSE LET index == get_sorted_index_for_name(name) IN
            IF index < 0
            THEN [err |-> TRUE, sorted_names |-> sorted, col2sort |-> c2s, oob |-> oob]
            ELSE SortNames(n2c, j + 1,
                           IF index \in DOMAIN sorted
                             THEN [sorted EXCEPT ![index] = name] ELSE sorted,
                           IF index < NUM_POINT_VALS
                             THEN Put(c2s, n2c[name], index) ELSE c2s,
                           oob \/ index \notin DOMAIN sorted)

\* The chain of comparisons on sorted_names[0..2] (lines 459-480).
FormatOf(s) ==
  CASE s[0] = "x"   /\ s[1] = "y"   /\ s[2] = "z"         -> "XYZ"
    [] s[0] = "lon" /\ s[1] = "lat" /\ s[2] = "radius_m"  -> "LAT_LON_RADIUS_M"
    [] s[0] = "lon" /\ s[1] = "lat" /\ s[2] = "radius_km" -> "LAT_LON_RADIUS_KM"
    [] s[0] = "lon" /\ s[1] = "lat" /\ s[2] = "height_above_datum"
                                                          -> "HEIGHT_LAT_LON"
    [] s[0] = "easting" /\ s[1] = "northing" /\ s[2] = "height_above_datum"
                                                          -> "EASTING_HEIGHT_NORTHING"
    [] OTHER                                              -> "none"

\* The whole of parse_csv_format on a tokenized descriptor. The result holds
\* the outcome (status), the object (conv) and whether a write outside
\* sorted_names happened on the way (oob).
parse_csv_format(desc) ==
  IF desc = << >>
  THEN [status |-> "ok", conv |-> DefaultConv, oob |-> FALSE]
  ELSE
  LET f  == ReadFields(desc, 1, EmptyMap, EmptyMap)
      nt == Cardinality(DOMAIN f.name2col)
      c0 == [DefaultConv EXCEPT !.name2col = f.name2col,
                                !.col2name = f.col2name, !.num_targets = nt]
  IN IF f.err \/ nt < MIN_NUM_TARGETS \/ nt > MAX_NUM_TARGETS
     THEN [status |-> "ArgumentErr", conv |-> c0, oob |-> FALSE]
     ELSE
     LET s  == SortNames(f.name2col, 1, [k \in 0..(nt - 1) |-> ""], EmptyMap, FALSE)
         c1 == [c0 EXCEPT !.col2sort = s.col2sort]
         fm == FormatOf(s.sorted_names)
     IN IF s.err \/ fm = "none"
        THEN [status |-> "ArgumentErr", conv |-> c1, oob |-> s.oob]
        ELSE [status |-> "ok", conv |-> [c1 EXCEPT !.format = fm], oob |-> s.oob]

\* The descriptors of the model: every sequence of at most MaxFields names,
\* with the columns numbered in one of four ways.
ColStyles == {"contiguous", "gap", "repeated", "zero"}

ColumnOf(style, i) ==
  CASE style = "contiguous" -> i
    [] style = "gap"        -> IF i = 1 THEN 1 ELSE i + 1
    [] style = "repeated"   -> IF i = 2 THEN 1 ELSE i
    [] style = "zero"       -> i - 1

Descriptor(names, style) ==
  [i \in 1..Len(names) |-> [col |-> ColumnOf(style, i), name |-> names[i]]]

Descriptors ==
  {Descriptor(names, style) : names \in SeqsUpTo(FieldNames, MaxFields),
                              style \in ColStyles}

FmtIdle == /\ descriptor = << >>
           /\ conv = DefaultConv
           /\ fmt_status = "idle"

FmtInit == /\ descriptor \in Descriptors
           /\ conv = DefaultConv
           /\ fmt_status = "idle"

\* One call of parse_csv_format. A write outside sorted_names is undefined
\* behaviour: the call either crashes or goes on with the vector untouched.
ParseFormat ==
  /\ fmt_status = "idle"
  /\ LET r == parse_csv_format(descriptor) IN
       \/ /\ fmt_status' = r.status
          /\ conv' = r.conv
       \/ /\ r.oob
          /\ fmt_status' = "crash"
          /\ conv' = r.conv
  /\ UNCHANGED <<descriptor, lineVars, readerVars, convVars, tifVars, estVars, mainVars>>

-----------------------------------------------------------------------------
(* CsvConv::parse_csv_line *)

\* A token is the character string strtok cuts out of the line; only the class
\* of each character matters: "d" a character of a number, "a" any other
\* character that is no separator.
Chars == {"d", "a"}
Tokens == {<<"d">>, <<"a">>, <<"d", "a">>}

\* sscanf(token, "%lg", &val): the number of conversions made. %lg converts
\* the longest leading part of the token that is a number and stops there.
sscanf_lg(token) == IF token[1] = "d" THEN 1 ELSE 0

\* The whole token is a number.
IsNumber(token) == \A i \in DOMAIN token : token[i] = "d"

\* The while(1) loop over the columns of the line (lines 529-556); col_index
\* has already been incremented. A token is stored in point_data as read.
RECURSIVE ReadColumns(_, _, _, _, _, _)
ReadColumns(c, toks, col_index, num_values_read, point_data, file) ==
  LET out(ok) == [success |-> ok, num_values_read |-> num_values_read,
                  point_data |-> point_data, file |-> file]
  IN IF col_index + 1 > Len(toks) THEN out(TRUE)
     ELSE IF num_values_read >= c.num_targets THEN out(TRUE)
     ELSE IF col_index \notin DOMAIN c.col2name
       THEN ReadColumns(c, toks, col_index + 1, num_values_read, point_data, file)
     ELSE IF c.col2name[col_index] = "file"
       THEN ReadColumns(c, toks, col_index + 1, num_values_read + 1, point_data,
                        toks[col_index + 1])
     ELSE IF sscanf_lg(toks[col_index + 1]) = 0 THEN out(FALSE)
     ELSE ReadColumns(c, toks, col_index + 1, num_values_read + 1,
                      Append(point_data, toks[col_index + 1]), file)

\* A faulty variant of parse_csv_line that leaves is_first_line as it was.
parse_csv_line_flag_kept(c, first, toks) ==
  LET r       == ReadColumns(c, toks, 0, 0, << >>, << >>)
      success == r.success /\ r.num_values_read = c.num_targets
  IN [success |-> success, throws |-> ~success /\ ~first, is_first_line |-> first,
      num_values_read |-> r.num_values_read, point_data |-> r.point_data,
      file |-> r.file]

\* parse_csv_line(is_first_line, success, line): success, whether vw::IOErr is
\* thrown, the flag on return and the record read.
parse_csv_line(c, first, toks) ==
  LET r       == ReadColumns(c, toks, 0, 0, << >>, << >>)
      success == r.success /\ r.num_values_read = c.num_targets
      throws  == ~success /\ ~first
  IN [success |-> success, throws |-> throws,
      is_first_line |-> IF throws THEN first ELSE FALSE,
      num_values_read |-> r.num_values_read, point_data |-> r.point_data,
      file |-> r.file]

NoResult == [success |-> FALSE, throws |-> FALSE, is_first_line |-> FALSE,
             num_values_read |-> -1, point_data |-> << >>, file |-> << >>]

\* The format descriptors the lines are parsed with.
LineDescriptors ==
  { Descriptor(<<"x", "y", "z">>, "contiguous"),
    Descriptor(<<"lat", "lon", "radius_km">>, "gap"),
    Descriptor(<<"easting", "file", "northing", "height_above_datum">>, "contiguous") }

LineConvs == {parse_csv_format(d).conv : d \in LineDescriptors}

Lines == SeqsUpTo(Tokens, MaxTokens)

\* The size of the buffer temp of parse_csv_line (line 517)
bufSize == 2048

\* strncpy(temp, line.c_str(), bufSize) leaves temp with a terminating zero
\* only when the line is shorter than the buffer
strncpy_terminates(length, size) == length < size

\* The number of characters of a line made of the tokens toks with one
\* separator between two tokens
RECURSIVE MinLength(_)
MinLength(toks) ==
  IF toks = << >> THEN 0
  ELSE Len(Head(toks)) + (IF Len(toks) > 1 THEN 1 ELSE 0) + MinLength(Tail(toks))

\* The lengths of a line with the tokens toks: as short as can be, or filled
\* up with separators at its end to the size of the buffer or about
LineLengths(toks) == {MinLength(toks), bufSize - 1, bufSize, bufSize + 1}

\* The loop of parse_csv_line asks strtok for a token when none is left: the
\* search for the next token runs to the end of the string in temp
RECURSIVE TokensExhausted(_, _, _, _)
TokensExhausted(c, toks, col_index, num_values_read) ==
  IF col_index + 1 > Len(toks) THEN TRUE
  ELSE IF num_values_read >= c.num_targets THEN FALSE
  ELSE IF col_index \notin DOMAIN c.col2name
    THEN TokensExhausted(c, toks, col_index + 1, num_values_read)
  ELSE IF c.col2name[col_index] = "file"
    THEN TokensExhausted(c, toks, col_index + 1, num_values_read + 1)
  ELSE IF sscanf_lg(toks[col_index + 1]) = 0 THEN FALSE
  ELSE TokensExhausted(c, toks, col_index + 1, num_values_read + 1)

\* The call did not return
Crashed == [NoResult EXCEPT !.num_values_read = -2]

LineIdle == /\ line = << >>
            /\ line_conv = DefaultConv
            /\ is_first_line = FALSE
            /\ parsed = NoResult
            /\ line_length = 0
            /\ overrun = FALSE

LineInit == /\ line \in Lines
            /\ line_conv \in LineConvs
            /\ is_first_line \in BOOLEAN
            /\ parsed = NoResult
            /\ line_length \in LineLengths(line)
            /\ overrun = FALSE

\* One call of parse_csv_line. When temp holds no terminating zero and the
\* search for a token runs off its end, the behaviour is undefined: the memory
\* after temp ends the string at once, or holds the characters of one more
\* token, or the call does not return.
ParseLine ==
  /\ parsed = NoResult
  /\ IF strncpy_terminates(line_length, bufSize)
        \/ ~TokensExhausted(line_conv, line, 0, 0)
     THEN LET r == parse_csv_line(line_conv, is_first_line, line) IN
            /\ parsed' = r
            /\ is_first_line' = r.is_first_line
            /\ UNCHANGED overrun
     ELSE /\ overrun' = TRUE
          /\ \/ \E stray \in {<< >>} \cup {<<t>> : t \in Tokens} :
                  LET r == parse_csv_line(line_conv, is_first_line, line \o stray) IN
                    /\ parsed' = r
                    /\ is_first_line' = r.is_first_line
             \/ /\ parsed' = Crashed
                /\ UNCHANGED is_first_line
  /\ UNCHANGED <<line, line_conv, line_length, fmtVars, readerVars, convVars, tifVars,
                 estVars, mainVars>>

-----------------------------------------------------------------------------
(* CsvReader *)

\* The lines of the text sources of the model: empty lines, lines of three
\* one-character tokens, a line that is one token short, and a line of four
\* tokens the first of which starts with the character '#'.
ReaderTokens == {<<"d">>, <<"a">>}
ReaderLines == {<< >>, << <<"d">>, <<"d">> >>, << <<"#">>, <<"d">>, <<"d">>, <<"d">> >>}
               \cup [1..NUM_POINT_VALS -> ReaderTokens]

ReaderConvs == {parse_csv_format(Descriptor(<<"x", "y", "z">>, "contiguous")).conv,
                parse_csv_format(Descriptor(<<"file", "x", "y", "z">>, "contiguous")).conv}

\* asp::is_valid_csv_line (lines 976-979): not empty, no '#' at its start
is_valid_csv_line(ln) == ln # << >> /\ ln[1][1] # "#"

\* asp::csv_file_size (lines 981-995): the number of valid lines of the file
csv_file_size(file) == Cardinality({i \in DOMAIN file : is_valid_csv_line(file[i])})

ReaderIdle == /\ m_file = << >>
              /\ m_conv = DefaultConv
              /\ m_pos = 0
              /\ m_is_first_line = FALSE
              /\ m_has_valid_point = FALSE
              /\ m_curr_point = 0
              /\ rd_status = "idle"
              /\ rd_calls = 0
              /\ rd_skipped = {}
              /\ rd_points = << >>

\* CsvReader::CsvReader (lines 167-188)
ReaderInit == /\ m_file \in SeqsUpTo(ReaderLines, MaxLines)
              /\ m_conv \in ReaderConvs
              /\ m_pos = 0
              /\ m_is_first_line = TRUE
              /\ m_has_valid_point = FALSE
              /\ m_curr_point = 0
              /\ rd_status = "open"
              /\ rd_calls = 0
              /\ rd_skipped = {}
              /\ rd_points = << >>

\* One pass of the for loop of ReadNextPoint: getline, then parse_csv_line.
Attempt(pos, first) ==
  IF pos >= Len(m_file)
  THEN [eof |-> TRUE, throws |-> FALSE, success |-> FALSE, first |-> first]
  ELSE LET r == parse_csv_line(m_conv, first, m_file[pos + 1])
       IN [eof |-> FALSE, throws |-> r.throws, success |-> r.success,
           first |-> r.is_first_line]

\* CsvReader::ReadNextPoint (lines 190-217): at most two passes of the loop,
\* then the conversion of the record and the return.
ReadNextPoint ==
  /\ rd_status = "open"
  /\ rd_calls' = rd_calls + 1
  /\ LET a1 == Attempt(m_pos, m_is_first_line)
         a2 == Attempt(m_pos + 1, a1.first)
         Eof(pos, first, skipped) ==
           /\ m_pos' = pos
           /\ m_is_first_line' = first
           /\ m_has_valid_point' = FALSE
           /\ rd_status' = "eof"
           /\ rd_skipped' = rd_skipped \cup skipped
           /\ UNCHANGED <<m_curr_point, rd_points>>
         Throw(pos, first, skipped) ==
           /\ m_pos' = pos
           /\ m_is_first_line' = first
           /\ m_has_valid_point' = TRUE
           /\ rd_status' = "IOErr"
           /\ rd_skipped' = rd_skipped \cup skipped
           /\ UNCHANGED <<m_curr_point, rd_points>>
         Point(pos, first, skipped) ==
           /\ m_pos' = pos
           /\ m_is_first_line' = first
           /\ m_has_valid_point' = TRUE
           /\ m_curr_point' = pos
           /\ rd_points' = Append(rd_points, pos)
           /\ rd_skipped' = rd_skipped \cup skipped
           /\ UNCHANGED rd_status
     IN IF a1.eof THEN Eof(m_pos, a1.first, {})
        ELSE IF a1.throws THEN Throw(m_pos + 1, a1.first, {})
        ELSE IF a1.success THEN Point(m_pos + 1, a1.first, {})
        ELSE IF a2.eof THEN Eof(m_pos + 1, a2.first, {m_pos + 1})
        ELSE IF a2.throws THEN Throw(m_pos + 2, a2.first, {m_pos + 1})
        ELSE IF a2.success THEN Point(m_pos + 2, a2.first, {m_pos + 1})
        ELSE Point(m_pos + 2, a2.first, {m_pos + 1, m_pos + 2})
  /\ UNCHANGED <<m_file, m_conv, fmtVars, lineVars, convVars, tifVars, estVars, mainVars>>

-----------------------------------------------------------------------------
(* CsvConv::csv_to_cartesian and CsvConv::cartesian_to_csv *)

Abs(a) == IF a < 0 THEN -a ELSE a
Sgn(a) == IF a < 0 THEN -1 ELSE IF a > 0 THEN 1 ELSE 0

\* A Vector3, indexed from 0.
Vec3(a, b, c) == (0 :> a @@ 1 :> b @@ 2 :> c)

\* The keys of a std::map<int,int> in the order its iterator visits them.
RECURSIVE KeysInOrder(_)
KeysInOrder(S) ==
  IF S = {} THEN << >>
  ELSE LET lo == CHOOSE x \in S : \A y \in S : x <= y
       IN <<lo>> \o KeysInOrder(S \ {lo})

\* sort_parsed_vector3 (lines 601-611): point_data is indexed from 0.
RECURSIVE SortLoop(_, _, _, _, _)
SortLoop(c2s, keys, count, point_data, ordered_csv) ==
  IF count >= Len(keys) THEN ordered_csv
  ELSE LET second == c2s[keys[count + 1]]
       IN SortLoop(c2s, keys, count + 1, point_data,
                   IF second < NUM_POINT_VALS
                     THEN [ordered_csv EXCEPT ![second] = point_data[count]]
                     ELSE ordered_csv)

sort_parsed_vector3(c, point_data) ==
  SortLoop(c.col2sort, KeysInOrder(DOMAIN c.col2sort), 0, point_data, Vec3(0, 0, 0))

\* unsort_vector3 (lines 614-625)
RECURSIVE UnsortLoop(_, _, _, _, _, _)
UnsortLoop(c2s, keys, i, count, csv, csv2) ==
  IF i >= Len(keys) THEN csv2
  ELSE LET second == c2s[keys[i + 1]]
       IN IF second < NUM_POINT_VALS
          THEN UnsortLoop(c2s, keys, i + 1, count + 1, csv,
                          [csv2 EXCEPT ![count] = csv[second]])
          ELSE UnsortLoop(c2s, keys, i + 1, count, csv, csv2)

unsort_vector3(c, csv) ==
  UnsortLoop(c.col2sort, KeysInOrder(DOMAIN c.col2sort), 0, 0, csv, Vec3(0, 0, 0))

\* The datum and the planar projection are library objects. A Cartesian vector
\* the datum produces is held by its polar coordinates about the centre of the
\* datum: <<longitude in (-180, 180], geocentric latitude, length>>; norm_2 of
\* it is its length and scaling it changes the length only. On a sphere the
\* geocentric latitude of a point is its geodetic latitude. On a flattened
\* datum the two differ off the equator: by the flattening on and below the
\* surface of the datum, and by less the higher the point is above it.
NormLon(lon) == ((lon + 179) % 360) - 179

GeocentricShift(flattening, h) == Max(0, flattening - Max(0, h))

geodetic_to_cartesian(flattening, llh) ==
  Vec3(NormLon(llh[0]),
       llh[1] - Sgn(llh[1]) * GeocentricShift(flattening, llh[2]),
       DatumRadius + llh[2])

cartesian_to_geodetic(flattening, xyz) ==
  LET h == xyz[2] - DatumRadius
  IN Vec3(xyz[0], xyz[1] + Sgn(xyz[1]) * GeocentricShift(flattening, h), h)

norm_2(xyz) == xyz[2]

\* s * (xyz / norm_2(xyz)), for s > 0
Rescale(s, xyz) == [xyz EXCEPT ![2] = s]

point_to_lonlat(en) == <<en[1] \div ProjScale, en[2] \div ProjScale>>
lonlat_to_point(ll) == <<ll[1] * ProjScale, ll[2] * ProjScale>>

\* round(d / 360.0): to the nearest whole number, halves away from zero
Round360(d) == IF d >= 0 THEN (d + 180) \div 360 ELSE -((-d + 180) \div 360)

\* csv_to_cartesian (lines 672-700)
csv_to_cartesian(c, point_data, flattening) ==
  LET ordered_csv == sort_parsed_vector3(c, point_data)
  IN CASE c.format = "XYZ" -> ordered_csv
       [] c.format = "EASTING_HEIGHT_NORTHING" ->
            LET ll  == point_to_lonlat(<<ordered_csv[0], ordered_csv[1]>>)
                llh == Vec3(ll[1], ll[2], ordered_csv[2])
            IN geodetic_to_cartesian(flattening, llh)
       [] c.format = "HEIGHT_LAT_LON" ->
            geodetic_to_cartesian(flattening, ordered_csv)
       [] OTHER ->
            LET radius_m == IF c.format = "LAT_LON_RADIUS_KM"
                              THEN ordered_csv[2] * 1000 ELSE ordered_csv[2]
                tmp == [ordered_csv EXCEPT ![2] = 0]
                xyz == geodetic_to_cartesian(flattening, tmp)
            IN Rescale(radius_m, xyz)

\* A faulty variant of cartesian_to_csv that leaves out the 360 degree adjustment.
cartesian_to_csv_unadjusted(c, xyz, flattening, mean_longitude) ==
  IF c.format = "XYZ" THEN unsort_vector3(c, xyz)
  ELSE LET llh == cartesian_to_geodetic(flattening, xyz)
       IN unsort_vector3(c,
            CASE c.format = "EASTING_HEIGHT_NORTHING" ->
                   LET en == lonlat_to_point(<<llh[0], llh[1]>>)
                   IN Vec3(en[1], en[2], llh[2])
              [] c.format = "HEIGHT_LAT_LON" -> llh
              [] c.format = "LAT_LON_RADIUS_KM" -> [llh EXCEPT ![2] = norm_2(xyz) \div 1000]
              [] OTHER -> [llh EXCEPT ![2] = norm_2(xyz)])

\* cartesian_to_csv (lines 750-790)
cartesian_to_csv(c, xyz, flattening, mean_longitude) ==
  IF c.format = "XYZ" THEN unsort_vector3(c, xyz)
  ELSE LET llh0 == cartesian_to_geodetic(flattening, xyz)
           llh  == [llh0 EXCEPT ![0] = llh0[0] + 360 * Round360(mean_longitude - llh0[0])]
       IN unsort_vector3(c,
            CASE c.format = "EASTING_HEIGHT_NORTHING" ->
                   LET en == lonlat_to_point(<<llh[0], llh[1]>>)
                   IN Vec3(en[1], en[2], llh[2])
              [] c.format = "HEIGHT_LAT_LON" -> llh
              [] c.format = "LAT_LON_RADIUS_KM" -> [llh EXCEPT ![2] = norm_2(xyz) \div 1000]
              [] OTHER -> [llh EXCEPT ![2] = norm_2(xyz)])

\* The scheme a set of coordinate names stands for.
SchemeOfNames(S) ==
  CASE S = {"x", "y", "z"}                              -> "XYZ"
    [] S = {"lon", "lat", "radius_m"}                   -> "LAT_LON_RADIUS_M"
    [] S = {"lon", "lat", "radius_km"}                  -> "LAT_LON_RADIUS_KM"
    [] S = {"lon", "lat", "height_above_datum"}         -> "HEIGHT_LAT_LON"
    [] S = {"easting", "northing", "height_above_datum"} -> "EASTING_HEIGHT_NORTHING"
    [] OTHER                                            -> "none"

\* The descriptors of the conversions: the three names of a scheme in every
\* order, alone or with a "file" column before them, columns contiguous or not.
InsertFile(names) == <<"file">> \o names

SchemeNameSeqs ==
  {n \in [1..NUM_POINT_VALS -> FieldNames \ {"file", "bogus"}] :
     SchemeOfNames({n[i] : i \in DOMAIN n}) # "none"}

ConvDescriptors ==
  {Descriptor(n, st) : n \in SchemeNameSeqs \cup {InsertFile(m) : m \in SchemeNameSeqs},
                       st \in {"contiguous", "gap"}}

ConvConvs == {parse_csv_format(d).conv : d \in ConvDescriptors}

Longitudes == {90 * k : k \in (-MaxQuarterTurns)..MaxQuarterTurns}
Latitudes  == {0, 45}
Lengths    == {1, 12}

\* The values a record may hold under the name of a column.
ValuesOf(name) ==
  CASE name = "lon"       -> Longitudes
    [] name = "lat"       -> Latitudes
    [] name = "easting"   -> {ProjScale * l : l \in Longitudes}
    [] name = "northing"  -> {ProjScale * l : l \in Latitudes}
    [] name = "radius_m"  -> Lengths
    [] name = "radius_km" -> Lengths
    [] OTHER              -> {-1, 12}

\* The records of a CsvConv: point_data holds the numeric columns in file order.
NumericCols(c) == KeysInOrder(DOMAIN c.col2sort)
RecordsOf(c) ==
  LET nm(i) == c.col2name[NumericCols(c)[i + 1]]
  IN {Vec3(a, b, d) : a \in ValuesOf(nm(0)), b \in ValuesOf(nm(1)), d \in ValuesOf(nm(2))}

ConvIdle == /\ cv_conv = DefaultConv
            /\ cv_datum = 0
            /\ cv_rec = Vec3(0, 0, 0)
            /\ cv_mean = 0
            /\ cv_xyz = Vec3(0, 0, 0)
            /\ cv_csv = Vec3(0, 0, 0)
            /\ cv_pc = "idle"

ConvInit == /\ cv_conv \in ConvConvs
            /\ cv_datum \in 0..MaxFlattening
            /\ cv_rec \in RecordsOf(cv_conv)
            /\ cv_mean \in Longitudes
            /\ cv_xyz = Vec3(0, 0, 0)
            /\ cv_csv = Vec3(0, 0, 0)
            /\ cv_pc = "start"

\* xyz = csv_conv.csv_to_cartesian(record, georef)
Forward ==
  /\ cv_pc = "start"
  /\ cv_xyz' = csv_to_cartesian(cv_conv, cv_rec, cv_datum)
  /\ cv_pc' = "forward"
  /\ UNCHANGED <<cv_conv, cv_datum, cv_rec, cv_mean, cv_csv, fmtVars, lineVars, readerVars, tifVars, estVars, mainVars>>

\* csv = csv_conv.cartesian_to_csv(xyz, georef, mean_longitude)
Reverse ==
  /\ cv_pc = "forward"
  /\ cv_csv' = cartesian_to_csv(cv_conv, cv_xyz, cv_datum, cv_mean)
  /\ cv_pc' = "done"
  /\ UNCHANGED <<cv_conv, cv_datum, cv_rec, cv_mean, cv_xyz, fmtVars, lineVars, readerVars, tifVars, estVars, mainVars>>

-----------------------------------------------------------------------------
(* las_or_csv_to_tif: the reader, the composite and its writer *)

\* (int)ceil(double(a)/b), for a >= 0 and b > 0
CeilDiv(a, b) == (a + b - 1) \div b

\* A faulty variant of the constructor that rounds the points per row down.
LasOrCsvToTif_Class_floor(n_points, n_rows, tile_len) ==
  LET num_row_tiles  == Max(1, CeilDiv(n_rows, tile_len))
      rows           == tile_len * num_row_tiles
      points_per_row == n_points \div rows
      num_col_tiles  == Max(1, CeilDiv(points_per_row, tile_len))
  IN [m_rows |-> rows, m_cols |-> tile_len * num_col_tiles]

\* LasOrCsvToTif_Class::LasOrCsvToTif_Class (lines 250-260)
LasOrCsvToTif_Class(n_points, n_rows, tile_len) ==
  LET num_row_tiles  == Max(1, CeilDiv(n_rows, tile_len))
      rows           == tile_len * num_row_tiles
      points_per_row == CeilDiv(n_points, rows)
      num_col_tiles  == Max(1, CeilDiv(points_per_row, tile_len))
  IN [m_rows |-> rows, m_cols |-> tile_len * num_col_tiles]

\* The alternative writer: the threads in which asp::block_write_gdal_image
\* (vw::block_write_image) produces the tiles of an image.
block_write_gdal_image_threads(threads) == threads

\* The threads in which the writer that las_or_csv_to_tif calls,
\* asp::write_gdal_image (vw::write_image), produces the tiles of an image:
\* the calling thread alone, whatever the number of threads of the settings.
write_gdal_image_threads(threads) == 1

\* The sources of the model. A source has num_points points by its header
\* (LAS) or by csv_file_size (CSV) and gives out yield points; wkt is the
\* spatial reference string of a LAS header; bad_line is the point after which
\* a line of a CSV source fails to parse (0: no line fails).
Sources ==
  {[kind |-> "las", num_points |-> n, yield |-> n, wkt |-> w, bad_line |-> 0] :
      n \in 0..MaxPoints, w \in {"", "WKT"}}
  \cup
  {[kind |-> "csv", num_points |-> n, yield |-> n - h, wkt |-> "", bad_line |-> b] :
      n \in 1..MaxPoints, h \in {0, 1}, b \in 0..MaxPoints}
  \cup
  {[kind |-> "other", num_points |-> 0, yield |-> 0, wkt |-> "", bad_line |-> 0]}

NoSource == [kind |-> "none", num_points |-> 0, yield |-> 0, wkt |-> "", bad_line |-> 0]

TifIdle == /\ in_file = NoSource
           /\ csv_georef = "none"
           /\ num_rows = 0
           /\ num_threads = 0
           /\ raster_tile_size = 0
           /\ original_tile_size = 0
           /\ TILE_LEN = 0
           /\ m_num_points = 0
           /\ m_has_georef = FALSE
           /\ m_georef = "default"
           /\ m_rows = 0
           /\ m_cols = 0
           /\ num_read = 0
           /\ next_tile = 0
           /\ in_flight = {}
           /\ tiles = << >>
           /\ tif_pc = "idle"

\* The state on entry of las_or_csv_to_tif. The tile length stands for the
\* constant TILE_LEN of the source, which is scaled down here.
TifInit == /\ in_file \in Sources
           /\ csv_georef = "caller"
           /\ num_rows \in 0..MaxRows
           /\ num_threads \in 1..MaxThreads
           /\ raster_tile_size \in 1..MaxTileLen
           /\ original_tile_size = 0
           /\ TILE_LEN \in 1..MaxTileLen
           /\ m_num_points = 0
           /\ m_has_georef = FALSE
           /\ m_georef = "default"
           /\ m_rows = 0
           /\ m_cols = 0
           /\ num_read = 0
           /\ next_tile = 0
           /\ in_flight = {}
           /\ tiles = << >>
           /\ tif_pc = "start"

\* las_or_csv_to_tif up to the call of the writer (lines 815-836): the tile
\* size is changed, the reader is built (LasReader lines 135-145, CsvReader
\* lines 167-188) and the composite is sized for num_rows rows.
OpenSource ==
  /\ tif_pc = "start"
  /\ original_tile_size' = raster_tile_size
  /\ raster_tile_size' = TILE_LEN
  /\ IF in_file.kind = "other"
     THEN /\ tif_pc' = "ArgumentErr"
          /\ UNCHANGED <<m_num_points, m_has_georef, m_georef, m_rows, m_cols>>
     ELSE /\ tif_pc' = "writing"
          /\ m_num_points' = in_file.num_points
          /\ IF in_file.kind = "csv"
             THEN /\ m_has_georef' \in BOOLEAN   \* format != XYZ
                  /\ m_georef' = csv_georef
             ELSE /\ m_has_georef' = (in_file.wkt # "")
                  /\ m_georef' = IF in_file.wkt # "" THEN "embedded" ELSE m_georef
          /\ LET img == LasOrCsvToTif_Class(in_file.num_points, num_rows, TILE_LEN)
             IN /\ m_rows' = img.m_rows
                /\ m_cols' = img.m_cols
  /\ UNCHANGED <<in_file, csv_georef, num_rows, num_threads, TILE_LEN, num_read, next_tile, in_flight, tiles,
                 fmtVars, lineVars, readerVars, convVars, estVars, mainVars>>

NumTiles == (m_rows \div TILE_LEN) * (m_cols \div TILE_LEN)

\* The writer hands the next tile to a free thread, which enters prerasterize.
BeginTile ==
  /\ tif_pc = "writing"
  /\ next_tile < NumTiles
  /\ Cardinality(in_flight) < write_gdal_image_threads(num_threads)
  /\ in_flight' = in_flight \cup {next_tile}
  /\ next_tile' = next_tile + 1
  /\ UNCHANGED <<in_file, csv_georef, num_rows, num_threads, raster_tile_size, original_tile_size, TILE_LEN,
                 m_num_points, m_has_georef, m_georef, m_rows, m_cols, num_read,
                 tiles, tif_pc, fmtVars, lineVars, readerVars, convVars, estVars, mainVars>>

\* prerasterize (lines 274-306) of a tile in flight: the reader is read until
\* the tile is full or the reader ends, the points go through the Chipper with
\* the reader's reference, and the tile is written.
EndTile(t) ==
  /\ tif_pc = "writing"
  /\ t \in in_flight
  /\ LET max_num_pts_to_read == TILE_LEN * TILE_LEN
         count == Min(max_num_pts_to_read, in_file.yield - num_read)
         fails == /\ in_file.kind = "csv"
                  /\ in_file.bad_line > 0
                  /\ in_file.bad_line >= num_read
                  /\ in_file.bad_line < num_read + max_num_pts_to_read
                  /\ in_file.bad_line <= in_file.yield
     IN IF fails
        THEN /\ tif_pc' = "IOErr"
             /\ num_read' = in_file.bad_line
             /\ in_flight' = in_flight \ {t}
             /\ UNCHANGED tiles
        ELSE /\ num_read' = num_read + count
             /\ in_flight' = in_flight \ {t}
             /\ tiles' = Append(tiles, [tile |-> t, first |-> num_read, count |-> count,
                                        has_georef |-> m_has_georef, georef |-> m_georef])
             /\ UNCHANGED tif_pc
  /\ UNCHANGED <<in_file, csv_georef, num_rows, num_threads, raster_tile_size, original_tile_size, TILE_LEN,
                 m_num_points, m_has_georef, m_georef, m_rows, m_cols, next_tile,
                 fmtVars, lineVars, readerVars, convVars, estVars, mainVars>>

\* The writer returns and the tile size is restored (line 844).
CloseSource ==
  /\ tif_pc = "writing"
  /\ next_tile = NumTiles
  /\ in_flight = {}
  /\ raster_tile_size' = original_tile_size
  /\ tif_pc' = "done"
  /\ UNCHANGED <<in_file, csv_georef, num_rows, num_threads, original_tile_size, TILE_LEN, m_num_points,
                 m_has_georef, m_georef, m_rows, m_cols, num_read, next_tile,
                 in_flight, tiles, fmtVars, lineVars, readerVars, convVars, estVars, mainVars>>

-----------------------------------------------------------------------------
(* ErrorRangeEstimAccum *)

RECURSIVE Insert(_, _)
Insert(sorted, v) ==
  IF sorted = << >> THEN <<v>>
  ELSE IF v <= Head(sorted) THEN <<v>> \o sorted
  ELSE <<Head(sorted)>> \o Insert(Tail(sorted), v)

\* std::sort(vals.begin(), vals.end())
RECURSIVE sort(_)
sort(vals) == IF vals = << >> THEN << >> ELSE Insert(sort(Tail(vals)), Head(vals))

\* A faulty variant of value() that leaves out the sort.
value_unsorted(vals, params) ==
  IF vals = << >>
  THEN [throws |-> TRUE, m_vals |-> vals, k |-> 0, val |-> 0]
  ELSE LET len    == Len(vals)
           k      == Min(len - 1, (params[1] * len) \div 100)
       IN [throws |-> FALSE, m_vals |-> vals, k |-> k,
           val |-> vals[k + 1] * params[2] * 4]

\* A faulty variant of value() that divides by the factor.
value_divided(vals, params) ==
  IF vals = << >>
  THEN [throws |-> TRUE, m_vals |-> vals, k |-> 0, val |-> 0]
  ELSE LET sorted == sort(vals)
           len    == Len(sorted)
           k      == Min(len - 1, (params[1] * len) \div 100)
       IN [throws |-> FALSE, m_vals |-> sorted, k |-> k,
           val |-> (sorted[k + 1] * 4) \div params[2]]

\* ErrorRangeEstimAccum::value (lines 859-879). The percentile is a whole
\* number of percent, so that (int)(pct*len) is (percentile*len) div 100.
value(vals, params) ==
  IF vals = << >>
  THEN [throws |-> TRUE, m_vals |-> vals, k |-> 0, val |-> 0]
  ELSE LET sorted == sort(vals)
           len    == Len(sorted)
           k      == Min(len - 1, (params[1] * len) \div 100)
       IN [throws |-> FALSE, m_vals |-> sorted, k |-> k,
           val |-> sorted[k + 1] * params[2] * 4]

\* Scenario C of the specification
ScenarioC == <<0, 0, 2, 4, 6, 8, 10>>

Samples == SeqsUpTo(0..MaxError, MaxSamples) \cup {ScenarioC}
Percentiles == {1, 25, 50, 75, 100}
Factors == 1..MaxFactor

EstIdle == /\ samples = << >>
           /\ num_fed = 0
           /\ m_vals = << >>
           /\ remove_outliers_params = <<0, 0>>
           /\ val = 0
           /\ est_pc = "idle"

\* The accumulator after construction (line 848)
EstInit == /\ samples \in Samples
           /\ num_fed = 0
           /\ m_vals = << >>
           /\ remove_outliers_params \in Percentiles \X Factors
           /\ val = 0
           /\ est_pc = "feeding"

\* ErrorRangeEstimAccum::operator() (lines 850-854) on the next error value
Accumulate ==
  /\ est_pc = "feeding"
  /\ num_fed < Len(samples)
  /\ num_fed' = num_fed + 1
  /\ m_vals' = IF samples[num_fed + 1] > 0
               THEN Append(m_vals, samples[num_fed + 1])
               ELSE m_vals
  /\ UNCHANGED <<samples, remove_outliers_params, val, est_pc,
                 fmtVars, lineVars, readerVars, convVars, tifVars, mainVars>>

\* The call of value() once the error values are in
Value ==
  /\ est_pc = "feeding"
  /\ num_fed = Len(samples)
  /\ LET r == value(m_vals, remove_outliers_params)
     IN /\ est_pc' = IF r.throws THEN "ArgumentErr" ELSE "done"
        /\ m_vals' = r.m_vals
        /\ val' = r.val
  /\ UNCHANGED <<samples, num_fed, remove_outliers_params,
                 fmtVars, lineVars, readerVars, convVars, tifVars, mainVars>>

-----------------------------------------------------------------------------
(* main: the sampling of the error image (lines 1278-1309) *)

RECURSIVE Pow2(_)
Pow2(n) == IF n = 0 THEN 1 ELSE 2 * Pow2(n - 1)

\* The first and the last value of count in the sampling loop
FIRST_COUNT == 7
LAST_COUNT == 18

\* The widths of the point image. The image has one row, so that
\* int32(norm_2(Vector2(cols, rows))/sample) is cols div sample.
Widths == {1, 200} \cup {Pow2(e) : e \in LAST_COUNT..MaxWidthExp}

\* The pixels of the error image that can hold a nonzero error; every other
\* pixel holds zero.
PixelCols == {0, 1, 6, 1024}

\* int32(norm_2(Vector2(point_image.cols(), point_image.rows()))/sample),
\* raised to 1 (lines 1287-1290)
SubsampleAmt(cols, c) == Max(1, cols \div Pow2(c))

\* The values for_each_pixel gives the accumulator from
\* subsample(error_image, amt): the pixels amt apart, from pixel 0 on.
SubsampledPixels(img, cols, amt) ==
  LET RECURSIVE Walk(_)
      Walk(pixels) ==
        IF pixels = {} THEN << >>
        ELSE LET px == CHOOSE q \in pixels : \A r \in pixels : q <= r
             IN <<img[px]>> \o Walk(pixels \ {px})
  IN Walk({px \in DOMAIN img : px < cols /\ px % amt = 0})

\* ErrorRangeEstimAccum::operator() over a sequence of values
RECURSIVE AccumulateAll(_, _)
AccumulateAll(vals, values) ==
  IF values = << >> THEN vals
  ELSE AccumulateAll(IF Head(values) > 0 THEN Append(vals, Head(values)) ELSE vals,
                     Tail(values))

SampleParams == {<<75, 3>>, <<100, 1>>}

NoRasterizer == [remove_outliers_with_pct |-> FALSE, estim_max_error |-> 0]

SmpIdle == /\ point_image_cols = 0
           /\ error_image = << >>
           /\ loop_count = 0
           /\ subsample_steps = << >>
           /\ loop_success = FALSE
           /\ estim_max_error = 0
           /\ rasterizer = NoRasterizer
           /\ smp_pc = "idle"


\* main at line 1283, with opt.remove_outliers_with_pct set and
\* opt.max_valid_triangulation_error zero
SmpInit == /\ point_image_cols \in Widths
           /\ error_image \in [{px \in PixelCols : px < point_image_cols} -> 0..MaxError]
           /\ loop_count = FIRST_COUNT
           /\ subsample_steps = << >>
           /\ loop_success = FALSE
           /\ estim_max_error = 0
           /\ rasterizer = NoRasterizer
           /\ smp_pc = "loop"

\* One pass of the sampling loop (lines 1285-1308)
SampleAttempt ==
  /\ smp_pc = "loop"
  /\ loop_count <= LAST_COUNT
  /\ LET subsample_amt == SubsampleAmt(point_image_cols, loop_count)
         error_accum   == AccumulateAll(<< >>,
                            SubsampledPixels(error_image, point_image_cols, subsample_amt))
         found         == Len(error_accum) > 0
     IN /\ subsample_steps' = Append(subsample_steps, subsample_amt)
        /\ loop_success' = found
        /\ estim_max_error' = IF found
                              THEN value(error_accum, remove_outliers_params).val
                              ELSE estim_max_error
        /\ IF found \/ subsample_amt = 1
           THEN smp_pc' = "after" /\ UNCHANGED loop_count
           ELSE /\ loop_count' = loop_count + 1
                /\ smp_pc' = IF loop_count + 1 <= LAST_COUNT THEN "loop" ELSE "after"
  /\ UNCHANGED <<point_image_cols, error_image, rasterizer, coreVars, fillVars, runVars, auxVars>>

\* main after the loop (lines 1312-1334): the rasterizer is constructed with
\* opt.remove_outliers_with_pct and estim_max_error
Rasterize ==
  /\ smp_pc = "after"
  /\ rasterizer' = [remove_outliers_with_pct |-> TRUE, estim_max_error |-> estim_max_error]
  /\ smp_pc' = "rasterize"
  /\ UNCHANGED <<point_image_cols, error_image, loop_count, subsample_steps, loop_success,
                 estim_max_error, coreVars, fillVars, runVars, auxVars>>

-----------------------------------------------------------------------------
(* FillNoDataWithAvg (point2dem.cc lines 556-618) *)

\* A pixel of a masked image. The value of a filled pixel is the quotient
\* val/nvalid, kept as numerator and denominator.
Valid(v) == [valid |-> TRUE, num |-> v, den |-> 1]
NoData == [valid |-> FALSE, num |-> 0, den |-> 1]

\* A variant of operator() that divides by the number of pixels of the window.
FillPixel_by_window(img, kernel_size, i, j) ==
  IF img[i][j].valid THEN img[i][j]
  ELSE
    LET k2 == kernel_size \div 2
        nc == Len(img)
        nr == Len(img[1])
        cs == Max(1, i - k2)..Min(nc, i + k2)
        rs == Max(1, j - k2)..Min(nr, j + k2)
        RECURSIVE Sum(_)
        Sum(cells) ==
          IF cells = {} THEN 0
          ELSE LET cell == CHOOSE q \in cells : TRUE
               IN img[cell[1]][cell[2]].num + Sum(cells \ {cell})
        valid == {cell \in cs \X rs : img[cell[1]][cell[2]].valid}
    IN IF valid = {} THEN img[i][j]
       ELSE [valid |-> TRUE, num |-> Sum(valid), den |-> Cardinality(cs \X rs)]

\* FillNoDataWithAvg::operator() (lines 578-597). Columns and rows run from 1
\* here, so the bounds 0 and nc-1 of the source are 1 and nc.
RECURSIVE RowLoop(_, _, _, _, _)
RowLoop(img, c, r, r_last, acc) ==
  IF r > r_last THEN acc
  ELSE RowLoop(img, c, r + 1, r_last,
               IF ~img[c][r].valid THEN acc
               ELSE [val |-> acc.val + img[c][r].num, nvalid |-> acc.nvalid + 1])

RECURSIVE ColLoop(_, _, _, _, _, _)
ColLoop(img, c, c_last, r_first, r_last, acc) ==
  IF c > c_last THEN acc
  ELSE ColLoop(img, c + 1, c_last, r_first, r_last,
               RowLoop(img, c, r_first, r_last, acc))

FillPixel(img, kernel_size, i, j) ==
  IF img[i][j].valid THEN img[i][j]
  ELSE
    LET k2  == kernel_size \div 2
        nc  == Len(img)
        nr  == Len(img[1])
        acc == ColLoop(img, Max(1, i - k2), Min(nc, i + k2),
                       Max(1, j - k2), Min(nr, j + k2),
                       [val |-> 0, nvalid |-> 0])
    IN IF acc.nvalid = 0 THEN img[i][j]
       ELSE [valid |-> TRUE, num |-> acc.val, den |-> acc.nvalid]

\* Scenario D of the specification: a nodata cell among 8 cells of value 10
ScenarioD == << <<Valid(10), Valid(10), Valid(10)>>,
                <<Valid(10), NoData,    Valid(10)>>,
                <<Valid(10), Valid(10), Valid(10)>> >>

\* A nodata cell among 8 cells that are nodata or hold different values
Ring == << <<Valid(10), NoData,    Valid(20)>>,
           <<Valid(20), NoData,    NoData>>,
           <<NoData,    Valid(10), Valid(10)>> >>

PixelValues == {NoData, Valid(10), Valid(20)}

Images == UNION {[1..nc -> [1..nr -> PixelValues]] : nc \in 1..MaxSide, nr \in 1..MaxSide}
            \cup {ScenarioD, Ring}

FillIdle == /\ m_img = << >>
            /\ m_kernel_size = 0
            /\ filled = << >>
            /\ fill_pc = "idle"


\* The arguments of fill_nodata_with_avg
FillInit == /\ m_img \in Images
            /\ m_kernel_size \in 0..MaxKernel
            /\ filled = << >>
            /\ fill_pc = "start"

\* FillNoDataWithAvg::FillNoDataWithAvg (lines 570-575)
MakeView ==
  /\ fill_pc = "start"
  /\ fill_pc' = IF m_kernel_size % 2 = 1 /\ m_kernel_size > 0
                THEN "view" ELSE "ArgumentErr"
  /\ UNCHANGED <<m_img, m_kernel_size, filled, coreVars, smpVars, runVars, auxVars>>

\* The view is rasterized: operator() at every pixel (lines 599-611)
FillImage ==
  /\ fill_pc = "view"
  /\ filled' = [i \in 1..Len(m_img) |->
                  [j \in 1..Len(m_img[1]) |-> FillPixel(m_img, m_kernel_size, i, j)]]
  /\ fill_pc' = "done"
  /\ UNCHANGED <<m_img, m_kernel_size, coreVars, smpVars, runVars, auxVars>>

-----------------------------------------------------------------------------
(* point2dem: handle_arguments (lines 326-552) *)

\* The input files of a command line, by what they are: a point cloud tif
\* ("pc", 3 channels or more), a texture ("tex"), a LAS file, a CSV file, a
\* name no file has ("missing"), a word that starts with '-' ("dash").
FileKinds == {"pc", "tex", "las", "csv", "missing", "dash"}

InputFile(k, kind) == [id |-> k, kind |-> kind]

InputLists ==
  {[k \in 1..Len(kinds) |-> InputFile(k, kinds[k])] : kinds \in SeqsUpTo(FileKinds, MaxInputs)}

\* asp::is_las, asp::is_csv, asp::is_las_or_csv (PointUtils.cc lines 849-861)
is_las(file) == file.kind = "las"
is_csv(file) == file.kind = "csv"
\* A faulty variant of the test below: a CSV file is not recognized
is_las_or_csv_las_only(file) == is_las(file)

is_las_or_csv(file) == is_las(file) \/ is_csv(file)

\* The options after asp::check_command_line when nothing but the output
\* prefix and one spacing is given
DefaultOptions ==
  [pointcloud_files |-> << >>, texture_files |-> << >>,
   dem_spacing1 |-> <<1>>, dem_spacing2 |-> << >>, dem_spacing |-> << >>,
   datum |-> "", reference_spheroid |-> "",
   do_ortho |-> FALSE, fsaa |-> 1,
   dem_hole_fill_len |-> 0, ortho_hole_fill_len |-> 0,
   remove_outliers_with_pct |-> TRUE, remove_outliers_params |-> <<75, 3>>,
   max_valid_triangulation_error |-> 0,
   median_filter_params |-> <<0, 0>>, erode_len |-> 0,
   csv_format_str |-> "1:x 2:y 3:z",
   use_surface_sampling |-> FALSE, has_las_or_csv |-> FALSE,
   out_prefix |-> <<"out">>]

\* What a command line can set differently
Settings ==
  {<<"dem_spacing1", v>> : v \in {<< >>, <<-1>>, <<1, 2>>, <<1, 2, 3>>}}
  \cup {<<"dem_spacing2", <<2>> >>}
  \cup {<<"datum", "wgs84">>, <<"reference_spheroid", "moon">>}
  \cup {<<"do_ortho", TRUE>>, <<"use_surface_sampling", TRUE>>, <<"fsaa", 3>>}
  \cup {<<"dem_hole_fill_len", -1>>}
  \cup {<<"ortho_hole_fill_len", v>> : v \in {-1, 1}}
  \cup {<<"remove_outliers_params", v>> : v \in {<<0, 3>>, <<101, 3>>, <<75, 0>>}}
  \cup {<<"max_valid_triangulation_error", 1>>}
  \cup {<<"median_filter_params", v>> : v \in {<<-1, 0>>, <<3, 1>>}}
  \cup {<<"erode_len", -1>>, <<"csv_format_str", "">>, <<"out_prefix", << >> >>}

\* The options of a command line: at most two settings differ from the defaults
CommandLines ==
  {[[DefaultOptions EXCEPT ![a[1]] = a[2]] EXCEPT ![b[1]] = b[2]] :
      a \in Settings, b \in Settings}

Event(op, file) == [op |-> op, file |-> file]
NoFile == [id |-> 0, kind |-> "none"]

\* The outcome of a step: the exception thrown (or ""), the options and the
\* file system operations made
Outcome(error, o, events) == [error |-> error, opt |-> o, io |-> events]

\* The loop "Ensure that files exist" (lines 131-135): the files looked at
RECURSIVE ExistsLoop(_, _)
ExistsLoop(files, i) ==
  IF i > Len(files) THEN << >>
  ELSE <<Event("exists", files[i])>> \o
       (IF files[i].kind = "missing" THEN << >> ELSE ExistsLoop(files, i + 1))

\* The loop that separates the point clouds from the textures (lines 148-153)
RECURSIVE SeparateLoop(_, _, _)
SeparateLoop(files, i, acc) ==
  IF i > Len(files) THEN acc
  ELSE IF is_las_or_csv(files[i])
  THEN SeparateLoop(files, i + 1,
                    [acc EXCEPT !.pointcloud_files = Append(@, files[i])])
  ELSE \* get_num_channels opens the file
       SeparateLoop(files, i + 1,
         IF files[i].kind = "pc"
         THEN [acc EXCEPT !.pointcloud_files = Append(@, files[i]),
                          !.io = Append(@, Event("open", files[i]))]
         ELSE [acc EXCEPT !.texture_files = Append(@, files[i]),
                          !.io = Append(@, Event("open", files[i]))])

\* The loop that compares each cloud with its texture (lines 174-189)
RECURSIVE DimensionsLoop(_, _, _)
DimensionsLoop(clouds, textures, i) ==
  IF i > Len(clouds) THEN << >>
  ELSE <<Event("open", clouds[i]), Event("open", textures[i])>>
         \o DimensionsLoop(clouds, textures, i + 1)

\* parse_input_clouds_textures (lines 108-193)
parse_input_clouds_textures(files, o) ==
  LET num    == Len(files)
      looked == ExistsLoop(files, 1)
      sep    == SeparateLoop(files, 1, [pointcloud_files |-> << >>,
                                        texture_files |-> << >>, io |-> << >>])
      o1     == [o EXCEPT !.pointcloud_files = sep.pointcloud_files,
                          !.texture_files = sep.texture_files]
      o2     == [o1 EXCEPT !.has_las_or_csv = \E i \in 1..num : is_las_or_csv(files[i])]
  IN IF num = 0 THEN Outcome("Missing input point clouds", o, << >>)
     ELSE IF \E i \in 1..num : files[i].kind = "dash"
     THEN Outcome("Unrecognized option", o, << >>)
     ELSE IF \E i \in 1..num : files[i].kind = "missing"
     THEN Outcome("File does not exist", o, looked)
     ELSE IF o.do_ortho /\ num <= 1
     THEN Outcome("Missing input texture files", o, looked)
     ELSE IF o.do_ortho /\ num % 2 # 0
     THEN Outcome("There must be as many texture files as input point clouds", o, looked)
     ELSE IF o1.pointcloud_files = << >>
     THEN Outcome("No valid point cloud files were provided", o1, looked \o sep.io)
     ELSE IF ~o.do_ortho /\ o1.texture_files # << >>
     THEN Outcome("No ortho image was requested, yet texture files were passed", o1,
                  looked \o sep.io)
     ELSE IF o2.has_las_or_csv /\ o.do_ortho
     THEN Outcome("Cannot create orthoimages if point clouds are LAS or CSV", o2,
                  looked \o sep.io)
     ELSE IF o.do_ortho /\ Len(o2.pointcloud_files) # Len(o2.texture_files)
     THEN Outcome("There must be as many input point clouds as texture files", o2,
                  looked \o sep.io)
     ELSE Outcome("", o2,
                  looked \o sep.io \o
                  (IF o.do_ortho
                   THEN DimensionsLoop(o2.pointcloud_files, o2.texture_files, 1)
                   ELSE << >>))

\* The checks of handle_arguments between parse_input_clouds_textures and the
\* creation of the output directory (lines 436-526)
CheckOptions(o) ==
  LET spacing1 == IF Len(o.dem_spacing1) < Len(o.dem_spacing2)
                  THEN o.dem_spacing2 ELSE o.dem_spacing1
      spacing  == IF spacing1 = << >> THEN <<0>> ELSE spacing1
      o1       == [o EXCEPT !.dem_spacing = spacing]
      spacing_provided == \E i \in 1..Len(spacing) : spacing[i] > 0
      \* asp::prefix_from_pointcloud_filename
      o2       == IF o1.out_prefix = << >>
                  THEN [o1 EXCEPT !.out_prefix = <<"prefix of", o1.pointcloud_files[1].id>>]
                  ELSE o1
      pct      == o.remove_outliers_params[1]
      factor   == o.remove_outliers_params[2]
      o3       == IF o2.max_valid_triangulation_error > 0
                  THEN [o2 EXCEPT !.remove_outliers_with_pct = FALSE] ELSE o2
  IN IF o.median_filter_params[1] < 0 \/ o.median_filter_params[2] < 0
     THEN Outcome("The parameters for median-based filtering must be non-negative", o, << >>)
     ELSE IF o.has_las_or_csv /\ o.median_filter_params[1] > 0 /\ o.median_filter_params[2] > 0
     THEN Outcome("Median-based filtering cannot handle CSV or LAS files", o, << >>)
     ELSE IF o.erode_len < 0
     THEN Outcome("Erode length must be non-negative", o, << >>)
     ELSE IF Len(o.dem_spacing1) > 0 /\ Len(o.dem_spacing2) > 0
     THEN Outcome("The DEM spacing was specified twice", o, << >>)
     ELSE IF \E i \in 1..Len(spacing) : spacing[i] < 0
     THEN Outcome("The DEM spacing must be non-negative", o1, << >>)
     ELSE IF o.has_las_or_csv /\ ~spacing_provided
     THEN Outcome("When inputs are LAS or CSV files, the output DEM resolution must be set",
                  o1, << >>)
     ELSE IF o.use_surface_sampling /\ o.has_las_or_csv
     THEN Outcome("Cannot use surface sampling with LAS or CSV files", o2, << >>)
     ELSE IF o.fsaa # 1 /\ ~o.use_surface_sampling
     THEN Outcome("The --fsaa option is obsolete", o2, << >>)
     ELSE IF o.dem_hole_fill_len < 0
     THEN Outcome("The value of --dem-hole-fill-len must be non-negative", o2, << >>)
     ELSE IF o.ortho_hole_fill_len < 0
     THEN Outcome("The value of --orthoimage-hole-fill-len must be non-negative", o2, << >>)
     ELSE IF ~o.do_ortho /\ o.ortho_hole_fill_len > 0
     THEN Outcome("The value of --orthoimage-hole-fill-len is positive, but orthoimage generation was not requested",
                  o2, << >>)
     ELSE IF pct <= 0 \/ pct > 100 \/ factor <= 0
     THEN Outcome("Invalid values were provided for remove-outliers-params", o2, << >>)
     ELSE Outcome("", o3, << >>)

\* The end of handle_arguments (lines 528-540): the output directory and the
\* log file are created, then datum and reference spheroid are compared
FinishArguments(o) ==
  LET made == <<Event("create_out_dir", NoFile), Event("log_to_file", NoFile)>>
  IN IF o.datum # "" /\ o.reference_spheroid # ""
     THEN Outcome("Both --datum and --reference-spheroid were specified", o, made)
     ELSE Outcome("", [o EXCEPT !.datum = IF @ = "" THEN o.reference_spheroid ELSE @], made)

RunIdle == /\ input_files = << >>
           /\ opt = DefaultOptions
           /\ io = << >>
           /\ tmp_tifs = << >>
           /\ outputs = << >>
           /\ base_out_prefix = << >>
           /\ loop_i = 0
           /\ run_error = ""
           /\ run_pc = "idle"


\* main on entry, after asp::check_command_line has read the options
RunInit == /\ input_files \in InputLists
           /\ opt \in CommandLines
           /\ io = << >>
           /\ tmp_tifs = << >>
           /\ outputs = << >>
           /\ base_out_prefix = << >>
           /\ loop_i = 0
           /\ run_error = ""
           /\ run_pc = "parse_input_clouds_textures"

\* A step of main that ends with the outcome r: on an exception the run ends
\* (ASP_STANDARD_CATCHES, line 1340), otherwise it goes on at next_pc.
StepTo(r, next_pc) ==
  /\ opt' = r.opt
  /\ io' = io \o r.io
  /\ run_error' = r.error
  /\ run_pc' = IF r.error # "" THEN "failed" ELSE next_pc

ParseInputs ==
  /\ run_pc = "parse_input_clouds_textures"
  /\ StepTo(parse_input_clouds_textures(input_files, opt), "check_options")
  /\ UNCHANGED <<input_files, tmp_tifs, outputs, base_out_prefix, loop_i,
                 coreVars, smpVars, fillVars, auxVars>>

CheckArguments ==
  /\ run_pc = "check_options"
  /\ StepTo(CheckOptions(opt), "create_out_dir")
  /\ UNCHANGED <<input_files, tmp_tifs, outputs, base_out_prefix, loop_i,
                 coreVars, smpVars, fillVars, auxVars>>

CreateOutDir ==
  /\ run_pc = "create_out_dir"
  /\ StepTo(FinishArguments(opt), "georef")
  /\ UNCHANGED <<input_files, tmp_tifs, outputs, base_out_prefix, loop_i,
                 coreVars, smpVars, fillVars, auxVars>>

-----------------------------------------------------------------------------
(* point2dem: main after handle_arguments (lines 1163-1338) *)

\* asp::georef_from_pc_files (PointUtils.cc lines 887-912) when no file holds a
\* georeference: every file is opened in turn
RECURSIVE OpenAll(_, _, _)
OpenAll(op, files, i) ==
  IF i > Len(files) THEN << >>
  ELSE <<Event(op, files[i])>> \o OpenAll(op, files, i + 1)

\* main, lines 1163-1219: the output georeference is set up
SetUpGeoref ==
  /\ run_pc = "georef"
  /\ StepTo(Outcome("", opt, OpenAll("open", opt.pointcloud_files, 1)), "las_or_csv_to_tifs")
  /\ UNCHANGED <<input_files, tmp_tifs, outputs, base_out_prefix, loop_i,
                 coreVars, smpVars, fillVars, auxVars>>

\* las_or_csv_to_tifs before its conversion loop (lines 198-262)
RECURSIVE FileSizes(_, _)
FileSizes(files, i) ==
  IF i > Len(files) THEN << >>
  ELSE (IF is_las(files[i]) THEN <<Event("open", files[i])>>     \* las_file_size
        ELSE IF is_csv(files[i]) THEN <<Event("read", files[i])>> \* csv_file_size
        ELSE << >>) \o FileSizes(files, i + 1)

RECURSIVE TifRows(_, _)
TifRows(files, i) ==
  IF i > Len(files) THEN << >>
  ELSE (IF is_las_or_csv(files[i]) THEN << >> ELSE <<Event("open", files[i])>>)
         \o TifRows(files, i + 1)

BeginConversions ==
  /\ run_pc = "las_or_csv_to_tifs"
  /\ LET files == opt.pointcloud_files
     IN IF ~opt.has_las_or_csv
        THEN StepTo(Outcome("", opt, << >>), "composite") /\ UNCHANGED loop_i
        ELSE IF opt.csv_format_str = "" /\ \E i \in 1..Len(files) : is_csv(files[i])
        THEN StepTo(Outcome("CSV files were passed in, but the CSV format string was not set",
                            opt, << >>), "convert") /\ UNCHANGED loop_i
        ELSE /\ StepTo(Outcome("", opt,
                         OpenAll("open", files, 1) \o TifRows(files, 1) \o
                         (IF \A i \in 1..Len(files) : is_las_or_csv(files[i])
                          THEN FileSizes(files, 1) ELSE << >>)),
                       "convert")
             /\ loop_i' = 1
  /\ UNCHANGED <<input_files, tmp_tifs, outputs, base_out_prefix, coreVars, smpVars, fillVars, auxVars>>

\* A faulty variant of the replacement below: the source keeps its place
ConvertedFile_source_kept(src_file, tmp_file) == src_file

\* The file las_or_csv_to_tifs puts in the place of a converted source
\* (line 303)
ConvertedFile(src_file, tmp_file) == tmp_file

TmpTif(src_file) == [id |-> src_file.id, kind |-> "tmp"]

\* One pass of the conversion loop of las_or_csv_to_tifs (lines 267-305). The
\* conversion reads the source to its end and writes the temporary tif, or a
\* line of a CSV source does not parse and the reader throws.
ConvertFile ==
  /\ run_pc = "convert"
  /\ loop_i <= Len(opt.pointcloud_files)
  /\ LET src_file  == opt.pointcloud_files[loop_i]
         tmp_file == TmpTif(src_file)
     IN IF ~is_las_or_csv(src_file)
        THEN /\ loop_i' = loop_i + 1
             /\ UNCHANGED <<opt, io, tmp_tifs, run_error, run_pc>>
        ELSE \/ /\ StepTo(Outcome("", [opt EXCEPT !.pointcloud_files[loop_i] =
                                                    ConvertedFile(src_file, tmp_file)],
                                  <<Event("exists", tmp_file), Event("read", src_file),
                                    Event("write", tmp_file)>>),
                          "convert")
                /\ tmp_tifs' = Append(tmp_tifs, tmp_file)
                /\ loop_i' = loop_i + 1
             \/ /\ is_csv(src_file)
                /\ StepTo(Outcome("Failed to read line", opt,
                                  <<Event("exists", tmp_file), Event("read part", src_file),
                                    Event("write part", tmp_file)>>),
                          "convert")
                /\ UNCHANGED <<tmp_tifs, loop_i>>
  /\ UNCHANGED <<input_files, outputs, base_out_prefix, coreVars, smpVars, fillVars, auxVars>>

\* las_or_csv_to_tifs returns; main builds the composite of the point clouds
\* and takes the mean of its points (lines 1229-1258)
Composite ==
  /\ \/ run_pc = "composite"
     \/ run_pc = "convert" /\ loop_i > Len(opt.pointcloud_files)
  /\ StepTo(Outcome("", opt, OpenAll("open", opt.pointcloud_files, 1)
                               \o OpenAll("read", opt.pointcloud_files, 1)),
            "estimate")
  /\ UNCHANGED <<input_files, tmp_tifs, outputs, base_out_prefix, loop_i,
                 coreVars, smpVars, fillVars, auxVars>>

\* main, lines 1260-1310: the largest error is estimated when outliers are to
\* be removed; the clouds have 4 or 6 channels each, or outlier removal is
\* switched off
Estimate ==
  /\ run_pc = "estimate"
  /\ IF opt.remove_outliers_with_pct \/ opt.max_valid_triangulation_error > 0
     THEN \/ StepTo(Outcome("", opt,
                            OpenAll("open", opt.pointcloud_files, 1) \o
                            (IF opt.remove_outliers_with_pct
                                  /\ opt.max_valid_triangulation_error = 0
                             THEN OpenAll("read", opt.pointcloud_files, 1) ELSE << >>)),
                    "rasterizer")
          \/ StepTo(Outcome("", [opt EXCEPT !.remove_outliers_with_pct = FALSE,
                                            !.max_valid_triangulation_error = 0],
                            OpenAll("open", opt.pointcloud_files, 1)),
                    "rasterizer")
     ELSE StepTo(Outcome("", opt, << >>), "rasterizer")
  /\ UNCHANGED <<input_files, tmp_tifs, outputs, base_out_prefix, loop_i,
                 coreVars, smpVars, fillVars, auxVars>>

\* do_software_rasterization_multi_spacing before its loop (lines 1107-1131):
\* the rasterizer is built from the composite
BuildRasterizer ==
  /\ run_pc = "rasterizer"
  /\ StepTo(Outcome("", opt, OpenAll("read", opt.pointcloud_files, 1)), "spacing")
  /\ base_out_prefix' = opt.out_prefix
  /\ loop_i' = 1
  /\ UNCHANGED <<input_files, tmp_tifs, outputs, coreVars, smpVars, fillVars, auxVars>>

\* A faulty variant of the prefix below: the number is left out
SuffixedPrefix_unnumbered(base, i) == base \o <<"_">>

\* itoa(i) appended to the base prefix after "_"
SuffixedPrefix(base, i) == base \o <<"_", i>>

\* The output file of save_image (line 715)
OutputFile(prefix, imgName) == [id |-> prefix, kind |-> imgName]

\* One pass of the loop over the spacings (lines 1134-1148), i = loop_i - 1:
\* do_software_rasterization computes the tiles of the DEM from the point
\* clouds and writes it
RasterizeSpacing ==
  /\ run_pc = "spacing"
  /\ loop_i <= Len(opt.dem_spacing)
  /\ LET i      == loop_i - 1
         prefix == IF i = 0 THEN base_out_prefix ELSE SuffixedPrefix(base_out_prefix, i)
     IN /\ StepTo(Outcome("", [opt EXCEPT !.out_prefix = prefix],
                          OpenAll("tile", opt.pointcloud_files, 1)
                            \o <<Event("write", OutputFile(prefix, "DEM"))>>),
                  "spacing")
        /\ outputs' = Append(outputs, [out_prefix |-> prefix,
                                       spacing |-> opt.dem_spacing[loop_i]])
  /\ loop_i' = loop_i + 1
  /\ UNCHANGED <<input_files, tmp_tifs, base_out_prefix, coreVars, smpVars, fillVars, auxVars>>

\* The loop over the spacings is over: the prefix is restored (line 1150) and
\* main removes the temporary files (lines 1336-1338)
RECURSIVE RemoveAll(_, _)
RemoveAll(files, i) ==
  IF i > Len(files) THEN << >>
  ELSE <<Event("exists", files[i]), Event("remove", files[i])>> \o RemoveAll(files, i + 1)

WipeTemporaries ==
  /\ run_pc = "spacing"
  /\ loop_i > Len(opt.dem_spacing)
  /\ StepTo(Outcome("", [opt EXCEPT !.out_prefix = base_out_prefix],
                    RemoveAll(tmp_tifs, 1)), "done")
  /\ UNCHANGED <<input_files, tmp_tifs, outputs, base_out_prefix, loop_i,
                 coreVars, smpVars, fillVars, auxVars>>

-----------------------------------------------------------------------------
(* The tiles of an output raster: block_write_gdal_image (Common.tcc lines
   52-76) hands the image to the block writer, whose opt.num_threads workers
   each compute a tile of the rasterizer's image and write it. The tile
   computation is the one of sections 4.6 and 4.8 of the specification. *)

Unwritten == [valid |-> FALSE, num |-> -1, den |-> 1]

\* The bins within the halo of tile t: its own and its neighbours'
HaloOf(b, t) == {u \in DOMAIN b : Abs(u - t) <= 1}

\* The weight of a point of bin u for the cell of tile t: larger when nearer
WeightOf(u, t) == IF u = t THEN 2 ELSE 1

RECURSIVE WeightedSums(_, _, _, _)
WeightedSums(b, thr, t, u) ==
  IF u > Len(b) THEN [num |-> 0, den |-> 0]
  ELSE LET rest == WeightedSums(b, thr, t, u + 1)
       IN IF u \in HaloOf(b, t) /\ b[u] > 0 /\ b[u] <= thr
          THEN [num |-> rest.num + WeightOf(u, t) * b[u],
                den |-> rest.den + WeightOf(u, t)]
          ELSE rest

\* The cell of tile t: the weighted mean of the points in its halo whose error
\* does not exceed the threshold, nodata when no point qualifies
CellOf(b, thr, t) ==
  LET w == WeightedSums(b, thr, t, 1)
  IN IF w.den = 0 THEN NoData ELSE [valid |-> TRUE, num |-> w.num, den |-> w.den]

\* A faulty variant of the tile computation below: a neighbour's cell is taken
\* from the output raster once it is written there
ProduceTile_from_raster(t) ==
  LET seen == [u \in DOMAIN bins |->
                 IF u # t /\ dem[u].valid THEN dem[u].num \div dem[u].den ELSE bins[u]]
  IN CellOf(seen, max_valid_error, t)

\* The tile computation: a function of the bins, the threshold and the tile
ProduceTile(t) == CellOf(bins, max_valid_error, t)

BinSets == UNION {[1..n -> 0..2] : n \in 2..MaxTiles}

TileIdle == /\ bins = << >>
            /\ max_valid_error = 0
            /\ tile_threads = 0
            /\ tile_status = << >>
            /\ tile_buf = << >>
            /\ dem = << >>
            /\ write_order = << >>
            /\ overlapped = FALSE
            /\ tile_pc = "idle"

TileInit == /\ bins \in BinSets
            /\ max_valid_error \in 1..2
            /\ tile_threads \in 1..MaxWorkers
            /\ tile_status = [t \in DOMAIN bins |-> "todo"]
            /\ tile_buf = [t \in DOMAIN bins |-> Unwritten]
            /\ dem = [t \in DOMAIN bins |-> Unwritten]
            /\ write_order = << >>
            /\ overlapped = FALSE
            /\ tile_pc = "writing"

Computing == {t \in DOMAIN tile_status : tile_status[t] = "computing"}

\* A free worker takes a tile and computes its cells
StartTile(t) ==
  /\ tile_pc = "writing"
  /\ tile_status[t] = "todo"
  /\ Cardinality(Computing) < tile_threads
  /\ tile_status' = [tile_status EXCEPT ![t] = "computing"]
  /\ tile_buf' = [tile_buf EXCEPT ![t] = ProduceTile(t)]
  /\ overlapped' = (overlapped \/ Computing # {})
  /\ UNCHANGED <<bins, max_valid_error, tile_threads, dem, write_order, tile_pc,
                 coreVars, smpVars, fillVars, runVars, chanVars, saveVars,
                 postVars>>

\* The worker writes the tile it computed to the output raster
FinishTile(t) ==
  /\ tile_pc = "writing"
  /\ tile_status[t] = "computing"
  /\ tile_status' = [tile_status EXCEPT ![t] = "written"]
  /\ dem' = [dem EXCEPT ![t] = tile_buf[t]]
  /\ write_order' = Append(write_order, t)
  /\ UNCHANGED <<bins, max_valid_error, tile_threads, tile_buf, overlapped, tile_pc,
                 coreVars, smpVars, fillVars, runVars, chanVars, saveVars,
                 postVars>>

\* Every tile is written: block_write_gdal_image returns
CloseRaster ==
  /\ tile_pc = "writing"
  /\ \A t \in DOMAIN tile_status : tile_status[t] = "written"
  /\ tile_pc' = "done"
  /\ UNCHANGED <<bins, max_valid_error, tile_threads, tile_status, tile_buf, dem,
                 write_order, overlapped, coreVars, smpVars, fillVars, runVars, chanVars, saveVars,
                 postVars>>

-----------------------------------------------------------------------------
(* The channels of the point clouds: num_channels (point2dem.cc lines
   905-925), the outlier block of main (lines 1260-1276) and the images
   do_software_rasterization writes (lines 992-1085) *)

\* A faulty variant of the function below: the smallest count, whatever the
\* counts of the other files
RECURSIVE num_channels_smallest(_)
num_channels_smallest(pc_files) ==
  IF Len(pc_files) = 1 THEN pc_files[1]
  ELSE Min(pc_files[1], num_channels_smallest(Tail(pc_files)))

RECURSIVE NumChannelsLoop(_, _, _, _)
NumChannelsLoop(pc_files, num_channels0, min_num_channels, i) ==
  IF i > Len(pc_files) THEN min_num_channels
  ELSE LET m == Min(min_num_channels, pc_files[i])
       IN NumChannelsLoop(pc_files, num_channels0,
                          IF pc_files[i] # num_channels0 THEN Min(m, 3) ELSE m,
                          i + 1)

\* num_channels: pc_files[i] stands for get_num_channels(pc_files[i])
num_channels(pc_files) == NumChannelsLoop(pc_files, pc_files[1], pc_files[1], 2)

ChannelCounts == {1, 3, 4, 6}

ChanOptions == [remove_outliers_with_pct : BOOLEAN,
                max_valid_triangulation_error : {0, 5},
                do_error : BOOLEAN,
                do_ortho : BOOLEAN]

NoOptions == [remove_outliers_with_pct |-> FALSE,
              max_valid_triangulation_error |-> 0,
              do_error |-> FALSE, do_ortho |-> FALSE]

NoArguments == [remove_outliers_with_pct |-> FALSE, estim_max_error |-> 0,
                max_valid_triangulation_error |-> 0]

\* The thresholds the sampling pass can come back with: 0 when every sample
\* it drew was zero (lines 1297-1300)
EstimatedErrors == 0..MaxEstimate

\* A faulty variant of the function below that leaves the flag alone.
OverrideWithThreshold_flag_kept(o) == o

\* handle_arguments, lines 512-516
OverrideWithThreshold(o) ==
  IF o.max_valid_triangulation_error > 0
  THEN [o EXCEPT !.remove_outliers_with_pct = FALSE]
  ELSE o

ChanIdle == /\ channels = << >>
            /\ chan_opt = NoOptions
            /\ channels_seen = << >>
            /\ written = << >>
            /\ chan_error = ""
            /\ user_opt = NoOptions
            /\ sampling_ran = FALSE
            /\ chan_estim_max_error = 0
            /\ rasterizer_args = NoArguments
            /\ chan_pc = "idle"

ChanInit == /\ channels \in UNION {[1..n -> ChannelCounts] : n \in 1..MaxClouds}
            /\ chan_opt \in ChanOptions
            /\ channels_seen = << >>
            /\ written = << >>
            /\ chan_error = ""
            /\ user_opt = chan_opt
            /\ sampling_ran = FALSE
            /\ chan_estim_max_error = 0
            /\ rasterizer_args = NoArguments
            /\ chan_pc = "handle_arguments"

\* handle_arguments, lines 512-516: a threshold given by the user takes the
\* place of the percentage
HandleArguments ==
  /\ chan_pc = "handle_arguments"
  /\ chan_opt' = OverrideWithThreshold(chan_opt)
  /\ chan_pc' = "estimate"
  /\ UNCHANGED <<channels, channels_seen, written, chan_error, user_opt, sampling_ran,
                 chan_estim_max_error, rasterizer_args,
                 coreVars, smpVars, fillVars, runVars, tileVars, saveVars, postVars>>

\* main, lines 1260-1310: the options are switched off for clouds without an
\* error channel; the sampling pass runs for the percentage only and leaves
\* its estimate in estim_max_error
EstimateOutliers ==
  /\ chan_pc = "estimate"
  /\ IF chan_opt.remove_outliers_with_pct \/ chan_opt.max_valid_triangulation_error > 0
     THEN LET n == num_channels(channels)
              o == IF n = 4 \/ n = 6 THEN chan_opt
                   ELSE [chan_opt EXCEPT !.remove_outliers_with_pct = FALSE,
                                         !.max_valid_triangulation_error = 0]
          IN /\ channels_seen' = Append(channels_seen, n)
             /\ chan_opt' = o
             /\ IF o.remove_outliers_with_pct /\ o.max_valid_triangulation_error = 0
                THEN /\ sampling_ran' = TRUE
                     /\ chan_estim_max_error' \in EstimatedErrors
                ELSE UNCHANGED <<sampling_ran, chan_estim_max_error>>
     ELSE UNCHANGED <<channels_seen, chan_opt, sampling_ran, chan_estim_max_error>>
  /\ chan_pc' = "rasterize"
  /\ UNCHANGED <<channels, written, chan_error, user_opt, rasterizer_args,
                 coreVars, smpVars, fillVars, runVars, tileVars, saveVars, postVars>>

\* do_software_rasterization_multi_spacing, lines 1115-1123: the rasterizer is
\* constructed; do_software_rasterization, lines 992-1085: the DEM, the error
\* image when asked for and the clouds have 4 or 6 channels each, the
\* orthoimage when asked for
RasterizeOutputs ==
  /\ chan_pc = "rasterize"
  /\ rasterizer_args' =
       [remove_outliers_with_pct |-> chan_opt.remove_outliers_with_pct,
        estim_max_error |-> chan_estim_max_error,
        max_valid_triangulation_error |-> chan_opt.max_valid_triangulation_error]
  /\ LET n       == num_channels(channels)
         error   == IF chan_opt.do_error /\ (n = 4 \/ n = 6)
                    THEN <<"IntersectionErr">> ELSE << >>
         ortho   == IF chan_opt.do_ortho THEN <<"DRG">> ELSE << >>
     IN /\ written' = <<"DEM">> \o error \o ortho
        /\ channels_seen' = IF chan_opt.do_error THEN Append(channels_seen, n)
                            ELSE channels_seen
  /\ chan_pc' = "done"
  /\ UNCHANGED <<channels, chan_opt, chan_error, user_opt, sampling_ran, chan_estim_max_error,
                 coreVars, smpVars, fillVars, runVars, tileVars, saveVars, postVars>>

-----------------------------------------------------------------------------
(* save_image (point2dem.cc lines 699-722) and save_with_temp_big_blocks
   (Common.tcc lines 273-301): an output raster is written under its final
   name with big blocks, then moved to a temporary name and written again
   under the final name with the blocks asked for *)

\* The smallest power of two that is not below x
RECURSIVE NextPow2From(_, _)
NextPow2From(x, p) == IF p >= x THEN p ELSE NextPow2From(x, 2 * p)
nextpow2(x) == NextPow2From(x, 1)

MIN_BLOCK_SIZE == 256

\* The block size save_image asks for (lines 712-713)
BigBlockSize(fill_len) == Max(MIN_BLOCK_SIZE, nextpow2(2 * fill_len))

Absent == [block_size |-> 0, blocks |-> << >>]

\* A faulty variant of CreatedFile that always makes the smallest blocks.
CreatedFile_smallest_blocks(side, block_size) ==
  [block_size |-> MIN_BLOCK_SIZE,
   blocks |-> [b \in 1..CeilDiv(side, MIN_BLOCK_SIZE) |-> "unwritten"]]

\* A file just created for an image of the given side: no block written yet
CreatedFile(side, block_size) ==
  [block_size |-> block_size,
   blocks |-> [b \in 1..CeilDiv(side, block_size) |-> "unwritten"]]

HoleFillLens == {0, 129, 300}
TileSizes == {256, 512}
ImageSides == {MIN_BLOCK_SIZE * k : k \in 1..MaxBlocks}

SaveIdle == /\ hole_fill_len = 0
            /\ image_side = 0
            /\ save_tile_size = 0
            /\ orig_block_size = 0
            /\ output_file = Absent
            /\ big_tmp_file = Absent
            /\ save_error = ""
            /\ save_pc = "idle"

SaveInit == /\ hole_fill_len \in HoleFillLens
            /\ image_side \in ImageSides
            /\ save_tile_size \in TileSizes
            /\ orig_block_size = 0
            /\ output_file = Absent
            /\ big_tmp_file = Absent
            /\ save_error = ""
            /\ save_pc = "save_image"

\* save_with_temp_big_blocks, lines 281-285, up to the creation of the file
\* in block_write_gdal_image
BeginBigBlocks ==
  /\ save_pc = "save_image"
  /\ orig_block_size' = save_tile_size
  /\ save_tile_size' = BigBlockSize(hole_fill_len)
  /\ output_file' = CreatedFile(image_side, BigBlockSize(hole_fill_len))
  /\ save_pc' = "big blocks"
  /\ UNCHANGED <<hole_fill_len, image_side, big_tmp_file, save_error,
                 coreVars, smpVars, fillVars, runVars, tileVars, chanVars,
                 postVars>>

\* A block of the file under the final name is computed and written
WriteBlock(b) ==
  /\ save_pc \in {"big blocks", "re-write"}
  /\ output_file.blocks[b] = "unwritten"
  /\ output_file' = [output_file EXCEPT !.blocks[b] = "complete"]
  /\ UNCHANGED <<hole_fill_len, image_side, save_tile_size, orig_block_size, big_tmp_file,
                 save_error, save_pc, coreVars, smpVars, fillVars, runVars, tileVars, chanVars,
                 postVars>>

\* The computation of a block throws, or its write fails part-way; nothing
\* catches the exception before main (ASP_STANDARD_CATCHES, line 1340), which
\* removes no file
FailBlock(b) ==
  /\ save_pc \in {"big blocks", "re-write"}
  /\ output_file.blocks[b] = "unwritten"
  /\ \/ UNCHANGED output_file
     \/ output_file' = [output_file EXCEPT !.blocks[b] = "torn"]
  /\ save_error' = "IOErr"
  /\ save_pc' = "failed"
  /\ UNCHANGED <<hole_fill_len, image_side, save_tile_size, orig_block_size, big_tmp_file,
                 coreVars, smpVars, fillVars, runVars, tileVars, chanVars,
                 postVars>>

\* The write with big blocks is over (lines 287-297): the file is moved aside
\* and created again when the block size asked for is another one
EndBigBlocks ==
  /\ save_pc = "big blocks"
  /\ \A b \in DOMAIN output_file.blocks : output_file.blocks[b] = "complete"
  /\ IF save_tile_size # orig_block_size
     THEN /\ big_tmp_file' = output_file
          /\ save_tile_size' = orig_block_size
          /\ output_file' = CreatedFile(image_side, orig_block_size)
          /\ save_pc' = "re-write"
     ELSE /\ save_pc' = "done"
          /\ UNCHANGED <<big_tmp_file, save_tile_size, output_file>>
  /\ UNCHANGED <<hole_fill_len, image_side, orig_block_size, save_error,
                 coreVars, smpVars, fillVars, runVars, tileVars, chanVars,
                 postVars>>

\* The second write is over: the temporary file is removed (line 298)
EndRewrite ==
  /\ save_pc = "re-write"
  /\ \A b \in DOMAIN output_file.blocks : output_file.blocks[b] = "complete"
  /\ big_tmp_file' = Absent
  /\ save_pc' = "done"
  /\ UNCHANGED <<hole_fill_len, image_side, save_tile_size, orig_block_size, output_file,
                 save_error, coreVars, smpVars, fillVars, runVars, tileVars, chanVars,
                 postVars>>

-----------------------------------------------------------------------------
(* RoundImagePixelsSkipNoData (point2dem.cc lines 796-823). Values are whole
   numbers of a fixed small unit; a pixel is the sequence of its channels. *)

\* round(n/d) of the C library for d > 0: to the nearest whole number, halves
\* away from zero
round(n, d) == IF n >= 0 THEN (2 * n + d) \div (2 * d)
                         ELSE -((2 * (-n) + d) \div (2 * d))

\* A faulty variant of operator() that cuts the quotient off towards zero.
RoundImagePixelsSkipNoData_truncating(pt, scale, nodata) ==
  IF scale <= 0 THEN pt
  ELSE IF \E c \in DOMAIN pt : pt[c] = nodata THEN pt
  ELSE [c \in DOMAIN pt |->
          scale * (IF pt[c] >= 0 THEN pt[c] \div scale ELSE -((-pt[c]) \div scale))]

\* RoundImagePixelsSkipNoData::operator() (lines 806-821)
RoundImagePixelsSkipNoData(pt, scale, nodata) ==
  IF scale <= 0 THEN pt
  ELSE IF \E c \in DOMAIN pt : pt[c] = nodata THEN pt
  ELSE [c \in DOMAIN pt |-> scale * round(pt[c], scale)]

\* Pixels of one channel (heights, texture) and of three (error vectors)
RoundPixels == [1..1 -> -MaxValue..MaxValue] \cup [1..3 -> -MaxValue..MaxValue]
RoundSteps == -1..MaxStep
NodataValues == {-MaxValue, 0}

RoundIdle == /\ round_pt = << >>
             /\ m_scale = 0
             /\ m_nodata = 0
             /\ rounded = << >>
             /\ round_pc = "idle"

RoundInit == /\ round_pt \in RoundPixels
             /\ m_scale \in RoundSteps
             /\ m_nodata \in NodataValues
             /\ rounded = << >>
             /\ round_pc = "pixel"

\* The per-pixel view applies the functor to a pixel (lines 826-831)
RoundPixel ==
  /\ round_pc = "pixel"
  /\ rounded' = RoundImagePixelsSkipNoData(round_pt, m_scale, m_nodata)
  /\ round_pc' = "done"
  /\ UNCHANGED <<round_pt, m_scale, m_nodata,
                 coreVars, smpVars, fillVars, runVars, tileVars, chanVars, saveVars, rastVars>>

-----------------------------------------------------------------------------
(* do_software_rasterization_multi_spacing (point2dem.cc lines 1107-1152) and
   do_software_rasterization (lines 932-1095). The rasterizer is a record of
   the settings its setters write; the raster it yields is computed as
   section 4.6 of the specification describes, on a line of positions
   0..MaxPos with a cell at every multiple of the spacing. An image is kept
   as the rasterizer yields it, before hole filling and antialiasing. *)

\* The points of a cloud within reach of the cell at x
PointsNear(cloud, x, radius) == {q \in DOMAIN cloud : Abs(q - x) <= radius}

\* The channel of a point that the texture of the rasterizer stands for
ChannelOf(point, texture) ==
  CASE texture = "height" -> point.z
    [] texture = "error"  -> point.err
    [] texture = "ortho"  -> point.tex

\* The weighted sum and the weight total of the points of a set: a point
\* weighs more the nearer it is
RECURSIVE ChannelSums(_, _, _, _, _)
ChannelSums(cloud, texture, x, radius, points) ==
  IF points = {} THEN [num |-> 0, den |-> 0]
  ELSE LET q    == CHOOSE r \in points : TRUE
           rest == ChannelSums(cloud, texture, x, radius, points \ {q})
           w    == radius + 1 - Abs(q - x)
       IN [num |-> rest.num + w * ChannelOf(cloud[q], texture), den |-> rest.den + w]

\* The lowest height of the cloud
MinZ(cloud) ==
  CHOOSE h \in {cloud[q].z : q \in DOMAIN cloud} : \A q \in DOMAIN cloud : h <= cloud[q].z

\* The cell at x: the weighted mean of the texture over the points within the
\* search radius; with no such point the lowest height when that fallback is
\* on, else the default value
RasterCell(cloud, rv, x) ==
  LET radius == rv.spacing \div 2
      near   == PointsNear(cloud, x, radius)
      sums   == ChannelSums(cloud, rv.texture, x, radius, near)
  IN IF near = {}
     THEN IF rv.use_minz_as_default THEN MinZ(cloud) ELSE rv.default_value
     ELSE sums.num \div sums.den

\* The raster of a rasterizer: one cell per multiple of its spacing
RasterOf(cloud, rv) ==
  [k \in 0..(MaxPos \div rv.spacing) |-> RasterCell(cloud, rv, k * rv.spacing)]

\* The rasterizer as its constructor leaves it (lines 1114-1123): the texture
\* is the height channel, select_channel(proj_point_input, 2)
NewRasterizer ==
  [texture |-> "height", spacing |-> 0, hole_fill_len |-> 0,
   use_minz_as_default |-> TRUE, default_value |-> 0]

NoRasterizerYet ==
  [texture |-> "none", spacing |-> 0, hole_fill_len |-> 0,
   use_minz_as_default |-> FALSE, default_value |-> 0]

\* A faulty variant of the configuration below that keeps what the
\* constructor set.
ConfigureRasterizer_defaults_kept(rv, o) == rv

\* Lines 1129-1130: set_use_minz_as_default(false), set_default_value(nodata)
ConfigureRasterizer(rv, o) ==
  [rv EXCEPT !.use_minz_as_default = FALSE, !.default_value = o.nodata_value]

\* OrthoRasterizerView::initialize_spacing: the cell size of the next raster
initialize_spacing(rv, spacing) == [rv EXCEPT !.spacing = spacing]

\* What save_image is handed: the raster of the rasterizer as it is set at the
\* time, the georeference and the rounding step
ImageOf(cloud, name, rv, georef, rounding_error) ==
  [name |-> name, texture |-> rv.texture, spacing |-> rv.spacing,
   hole_fill_len |-> rv.hole_fill_len, georef |-> georef,
   rounding_error |-> rounding_error, raster |-> RasterOf(cloud, rv)]

\* do_software_rasterization (lines 932-1095): the rasterizer, the rounding
\* step and the georeference it leaves, and the images it saves
do_software_rasterization(cloud, rv, o, rounding_error) ==
  LET georef   == rv.spacing                                     \* line 945
      rv1      == IF o.fsaa > 1                                  \* lines 952-953
                  THEN [rv EXCEPT !.spacing = rv.spacing \div o.fsaa] ELSE rv
      rounding == IF o.small_body THEN 0 ELSE rounding_error     \* lines 978-981
      rv2      == [rv1 EXCEPT !.hole_fill_len = 0]               \* line 985
      dem_img  == <<ImageOf(cloud, "DEM", rv2, georef, rounding)>>
      rv3      == IF o.do_error /\ o.has_error_channel           \* lines 1020-1062
                  THEN [rv2 EXCEPT !.texture = "error", !.hole_fill_len = 0]
                  ELSE rv2
      err_img  == IF o.do_error /\ o.has_error_channel
                  THEN <<ImageOf(cloud, "IntersectionErr", rv3, georef, rounding)>>
                  ELSE << >>
      rv4      == IF o.do_ortho                                  \* lines 1065-1077
                  THEN [rv3 EXCEPT !.texture = "ortho",
                                   !.hole_fill_len = o.ortho_hole_fill_len]
                  ELSE rv3
      drg_img  == IF o.do_ortho
                  THEN <<ImageOf(cloud, "DRG", rv4, georef, 0)>>
                  ELSE << >>
  IN [rasterizer |-> rv4, rounding_error |-> rounding, georef |-> georef,
      images |-> dem_img \o err_img \o drg_img]

\* The clouds: one or two points at different positions; the error and the
\* intensity of a point differ from every height
PointValues == [z : 1..MaxHeight, err : {MaxHeight + 1}, tex : {MaxHeight + 2}]
PointClouds ==
  UNION {[P -> PointValues] : P \in {Q \in SUBSET (0..MaxPos) : Cardinality(Q) \in 1..2}}

\* The values of --dem-spacing: whole multiples of the oversampling amounts
DemSpacings == UNION {[1..n -> {2, 4}] : n \in 1..MaxSpacings}

RasterOptions ==
  {o \in [dem_spacing : DemSpacings, fsaa : {1, 2}, small_body : BOOLEAN,
          do_error : BOOLEAN, has_error_channel : BOOLEAN, do_ortho : BOOLEAN,
          ortho_hole_fill_len : {0, 1}, nodata_value : {-MaxHeight}] :
     /\ o.ortho_hole_fill_len > 0 => o.do_ortho
     /\ o.has_error_channel => o.do_error}

NoRasterOptions ==
  [dem_spacing |-> << >>, fsaa |-> 0, small_body |-> FALSE, do_error |-> FALSE,
   has_error_channel |-> FALSE, do_ortho |-> FALSE, ortho_hole_fill_len |-> 0,
   nodata_value |-> 0]

RastIdle == /\ sp_cloud = << >>
            /\ sp_opt = NoRasterOptions
            /\ sp_rounding_error = 0
            /\ sp_rasterizer = NoRasterizerYet
            /\ sp_georef = 0
            /\ sp_images = << >>
            /\ sp_i = 0
            /\ sp_pc = "idle"

\* The entry of do_software_rasterization_multi_spacing
RastInit == /\ sp_cloud \in PointClouds
            /\ sp_opt \in RasterOptions
            /\ sp_rounding_error = 1
            /\ sp_rasterizer = NoRasterizerYet
            /\ sp_georef = 0
            /\ sp_images = << >>
            /\ sp_i = 0
            /\ sp_pc = "construct"

\* Lines 1114-1132: the rasterizer is constructed and configured once
ConstructRasterizer ==
  /\ sp_pc = "construct"
  /\ sp_rasterizer' = ConfigureRasterizer(NewRasterizer, sp_opt)
  /\ sp_i' = 1
  /\ sp_pc' = "spacings"
  /\ UNCHANGED <<sp_cloud, sp_opt, sp_rounding_error, sp_georef, sp_images,
                 coreVars, smpVars, fillVars, runVars, tileVars, chanVars, saveVars, roundVars>>

\* One pass of the loop over the spacings (lines 1135-1148)
RasterizeAtSpacing ==
  /\ sp_pc = "spacings"
  /\ sp_i <= Len(sp_opt.dem_spacing)
  /\ LET this_spacing == sp_opt.dem_spacing[sp_i]
         res == do_software_rasterization(sp_cloud,
                                          initialize_spacing(sp_rasterizer, this_spacing),
                                          sp_opt, sp_rounding_error)
     IN /\ sp_rasterizer' = res.rasterizer
        /\ sp_rounding_error' = res.rounding_error
        /\ sp_georef' = res.georef
        /\ sp_images' = sp_images \o
             [k \in DOMAIN res.images |-> [i |-> sp_i, image |-> res.images[k]]]
  /\ sp_i' = sp_i + 1
  /\ UNCHANGED <<sp_cloud, sp_opt, sp_pc,
                 coreVars, smpVars, fillVars, runVars, tileVars, chanVars, saveVars, roundVars>>

\* The loop is over (line 1150)
EndSpacings ==
  /\ sp_pc = "spacings"
  /\ sp_i > Len(sp_opt.dem_spacing)
  /\ sp_pc' = "done"
  /\ UNCHANGED <<sp_cloud, sp_opt, sp_rounding_error, sp_rasterizer, sp_georef, sp_images, sp_i,
                 coreVars, smpVars, fillVars, runVars, tileVars, chanVars, saveVars, roundVars>>

PostIdle == RoundIdle /\ RastIdle

AuxIdle == TileIdle /\ ChanIdle /\ SaveIdle /\ PostIdle

MainIdle == SmpIdle /\ FillIdle /\ RunIdle /\ AuxIdle

-----------------------------------------------------------------------------
(* Specifications *)

InitFormat == FmtInit /\ LineIdle /\ ReaderIdle /\ ConvIdle /\ TifIdle /\ EstIdle /\ MainIdle
NextFormat == ParseFormat
SpecFormat == InitFormat /\ [][NextFormat]_vars

InitParse == FmtIdle /\ LineInit /\ ReaderIdle /\ ConvIdle /\ TifIdle /\ EstIdle /\ MainIdle
NextParse == ParseLine
SpecParse == InitParse /\ [][NextParse]_vars

InitReader == FmtIdle /\ LineIdle /\ ReaderInit /\ ConvIdle /\ TifIdle /\ EstIdle /\ MainIdle
NextReader == ReadNextPoint
SpecReader == InitReader /\ [][NextReader]_vars

InitConv == FmtIdle /\ LineIdle /\ ReaderIdle /\ ConvInit /\ TifIdle /\ EstIdle /\ MainIdle
NextConv == Forward \/ Reverse
SpecConv == InitConv /\ [][NextConv]_vars

InitTif == FmtIdle /\ LineIdle /\ ReaderIdle /\ ConvIdle /\ TifInit /\ EstIdle /\ MainIdle
NextTif == \/ OpenSource
           \/ BeginTile
           \/ \E t \in in_flight : EndTile(t)
           \/ CloseSource
SpecTif == InitTif /\ [][NextTif]_vars

InitEstim == FmtIdle /\ LineIdle /\ ReaderIdle /\ ConvIdle /\ TifIdle /\ EstInit /\ MainIdle
NextEstim == Accumulate \/ Value
SpecEstim == InitEstim /\ [][NextEstim]_vars

\* The estimator's parameters are those of the options; its other variables
\* stay idle while main samples the error image.
InitSample == /\ FmtIdle /\ LineIdle /\ ReaderIdle /\ ConvIdle /\ TifIdle
              /\ samples = << >> /\ num_fed = 0 /\ m_vals = << >> /\ val = 0
              /\ est_pc = "idle"
              /\ remove_outliers_params \in SampleParams
              /\ SmpInit /\ FillIdle /\ RunIdle /\ AuxIdle
NextSample == SampleAttempt \/ Rasterize
SpecSample == InitSample /\ [][NextSample]_vars

InitFill == FmtIdle /\ LineIdle /\ ReaderIdle /\ ConvIdle /\ TifIdle /\ EstIdle
            /\ SmpIdle /\ FillInit /\ RunIdle /\ AuxIdle
NextFill == MakeView \/ FillImage
SpecFill == InitFill /\ [][NextFill]_vars

InitRun == FmtIdle /\ LineIdle /\ ReaderIdle /\ ConvIdle /\ TifIdle /\ EstIdle
           /\ SmpIdle /\ FillIdle /\ RunInit /\ AuxIdle
NextRun == \/ ParseInputs
           \/ CheckArguments
           \/ CreateOutDir
           \/ SetUpGeoref
           \/ BeginConversions
           \/ ConvertFile
           \/ Composite
           \/ Estimate
           \/ BuildRasterizer
           \/ RasterizeSpacing
           \/ WipeTemporaries
SpecRun == InitRun /\ [][NextRun]_vars

InitTiles == FmtIdle /\ LineIdle /\ ReaderIdle /\ ConvIdle /\ TifIdle /\ EstIdle
             /\ SmpIdle /\ FillIdle /\ RunIdle /\ TileInit /\ ChanIdle /\ SaveIdle /\ PostIdle
NextTiles == \/ \E t \in DOMAIN tile_status : StartTile(t)
             \/ \E t \in DOMAIN tile_status : FinishTile(t)
             \/ CloseRaster
SpecTiles == InitTiles /\ [][NextTiles]_vars

InitChannels == FmtIdle /\ LineIdle /\ ReaderIdle /\ ConvIdle /\ TifIdle /\ EstIdle
                /\ SmpIdle /\ FillIdle /\ RunIdle /\ TileIdle /\ ChanInit /\ SaveIdle /\ PostIdle
NextChannels == HandleArguments \/ EstimateOutliers \/ RasterizeOutputs
SpecChannels == InitChannels /\ [][NextChannels]_vars

InitSave == FmtIdle /\ LineIdle /\ ReaderIdle /\ ConvIdle /\ TifIdle /\ EstIdle
            /\ SmpIdle /\ FillIdle /\ RunIdle /\ TileIdle /\ ChanIdle /\ SaveInit /\ PostIdle
NextSave == \/ BeginBigBlocks
            \/ \E b \in DOMAIN output_file.blocks : WriteBlock(b)
            \/ \E b \in DOMAIN output_file.blocks : FailBlock(b)
            \/ EndBigBlocks
            \/ EndRewrite
SpecSave == InitSave /\ [][NextSave]_vars

\* The conversion of one binary source followed by the save of one output
\* raster, as main runs them (lines 1221-1229, then save_image): the save
\* starts once las_or_csv_to_tif is over. The conversion reads a LAS source
\* in the calling thread.
TifOver == tif_pc \notin {"start", "writing"}
InitTileSize == FmtIdle /\ LineIdle /\ ReaderIdle /\ ConvIdle /\ EstIdle
                /\ SmpIdle /\ FillIdle /\ RunIdle /\ TileIdle /\ ChanIdle
                /\ TifInit /\ in_file.kind # "csv" /\ in_file.wkt = ""
                /\ num_rows = 0 /\ num_threads = 1
                /\ SaveInit /\ PostIdle
NextTileSize == \/ OpenSource
                \/ BeginTile
                \/ \E t \in in_flight : EndTile(t)
                \/ CloseSource
                \/ TifOver /\ BeginBigBlocks
                \/ \E b \in DOMAIN output_file.blocks : WriteBlock(b)
                \/ \E b \in DOMAIN output_file.blocks : FailBlock(b)
                \/ EndBigBlocks
                \/ EndRewrite
SpecTileSize == InitTileSize /\ [][NextTileSize]_vars

InitRound == FmtIdle /\ LineIdle /\ ReaderIdle /\ ConvIdle /\ TifIdle /\ EstIdle
             /\ SmpIdle /\ FillIdle /\ RunIdle /\ TileIdle /\ ChanIdle /\ SaveIdle
             /\ RoundInit /\ RastIdle
NextRound == RoundPixel
SpecRound == InitRound /\ [][NextRound]_vars

InitSpacings == FmtIdle /\ LineIdle /\ ReaderIdle /\ ConvIdle /\ TifIdle /\ EstIdle
                /\ SmpIdle /\ FillIdle /\ RunIdle /\ TileIdle /\ ChanIdle /\ SaveIdle
                /\ RoundIdle /\ RastInit
NextSpacings == ConstructRasterizer \/ RasterizeAtSpacing \/ EndSpacings
SpecSpacings == InitSpacings /\ [][NextSpacings]_vars

Init == InitReader
Next == NextReader
Spec == SpecReader

-----------------------------------------------------------------------------
(* Properties of the text reader and of the format descriptor *)

\* Line k of the source does not parse (success does not depend on the flag).
LineFails(k) == ~parse_csv_line(m_conv, FALSE, m_file[k]).success

\* C1: a first line that fails to parse is skipped without error and the next
\* line is parsed in the same call of ReadNextPoint; a failure on any other
\* line raises vw::IOErr and no further line is read; no line but the first is
\* ever skipped, and every point returned comes from a line that parsed.
C1_HeaderSkippedOnce ==
  /\ rd_skipped \subseteq {1}
  /\ \A k \in rd_skipped : LineFails(k)
  /\ (rd_calls >= 1 /\ Len(m_file) >= 1 /\ LineFails(1))
       => (1 \in rd_skipped /\ m_pos >= Min(2, Len(m_file)))
  /\ \A k \in 2..m_pos : LineFails(k) => (rd_status = "IOErr" /\ k = m_pos)
  /\ (rd_status = "IOErr") => (m_pos >= 2 /\ LineFails(m_pos))
  /\ \A i \in DOMAIN rd_points : ~LineFails(rd_points[i])

\* A header was skipped, a point was returned and a later line then failed.
C1_Witness ==
  /\ rd_skipped = {1}
  /\ rd_points # << >>
  /\ rd_status = "IOErr"

\* The columns a descriptor declares, and its names.
ColsOf(desc)  == {desc[i].col : i \in DOMAIN desc}
NamesOf(desc) == {desc[i].name : i \in DOMAIN desc}

\* Exactly 3 columns, or exactly 4 one of which is "file"; the column indices
\* pairwise distinct and contiguous.
WellFormed(desc) ==
  /\ \/ Len(desc) = 3
     \/ Len(desc) = 4 /\ "file" \in NamesOf(desc)
  /\ Cardinality(ColsOf(desc)) = Len(desc)
  /\ \E lo \in ColsOf(desc) : ColsOf(desc) = lo..(lo + Len(desc) - 1)

\* C2 (as claimed): parse_csv_format accepts a non-empty descriptor only if it
\* declares exactly 3 columns, or 4 with "file", distinct and contiguous.
C2_AcceptsOnlyWellFormed ==
  (fmt_status = "ok" /\ descriptor # << >>) => WellFormed(descriptor)

\* C3 (as claimed): after parse_csv_format on a non-empty descriptor the scheme
\* is the one of the set of declared coordinate names, whatever their columns,
\* and any other set of names raises an argument error.
C3_SchemeFromNameSet ==
  (fmt_status # "idle" /\ descriptor # << >>) =>
    LET scheme == SchemeOfNames(NamesOf(descriptor) \ {"file"})
    IN IF scheme = "none"
       THEN fmt_status = "ArgumentErr"
       ELSE fmt_status = "ok" => conv.format = scheme

\* Every declared column has a token on the line, and the token of every
\* numeric column is a number.
AllDeclaredFieldsRead(c, toks) ==
  \A col \in DOMAIN c.col2name :
    /\ col + 1 <= Len(toks)
    /\ c.col2name[col] # "file" => IsNumber(toks[col + 1])

\* C4 (as claimed): parse_csv_line succeeds exactly when all declared fields
\* are read: it fails when fewer fields than the target count are read and
\* when a token at a declared numeric column is not a number.
C4_FailsOnNonNumber ==
  (parsed # NoResult) =>
    (parsed.success <=> AllDeclaredFieldsRead(line_conv, line))

-----------------------------------------------------------------------------
(* Properties of the conversions *)

\* The value a record (in file column order) holds under a column name.
ValueAt(c, rec, name) ==
  LET keys == NumericCols(c)
      i    == CHOOSE k \in 0..(NUM_POINT_VALS - 1) : keys[k + 1] = c.name2col[name]
  IN rec[i]

\* The longitude a record stands for (not defined for the XYZ scheme).
LonOf(c, rec) ==
  IF c.format = "EASTING_HEIGHT_NORTHING"
  THEN point_to_lonlat(<<ValueAt(c, rec, "easting"), ValueAt(c, rec, "northing")>>)[1]
  ELSE ValueAt(c, rec, "lon")

\* C5 (as claimed): for each of the five schemes and each column order,
\* cartesian_to_csv(csv_to_cartesian(r)) gives back the three values of r in
\* file column order, the datum's and the projection's conversions being exact
\* inverses and the mean longitude less than 180 degrees away from r's.
C5_RoundTrip ==
  (/\ cv_pc = "done"
   /\ \/ cv_conv.format = "XYZ"
      \/ Abs(cv_mean - LonOf(cv_conv, cv_rec)) < 180)
  => cv_csv = cv_rec

\* C6: under a scheme other than XYZ the longitude cartesian_to_csv gives out
\* is the geodetic longitude of the point plus a whole multiple of 360, and no
\* other multiple brings it nearer to the mean longitude: it is at most 180
\* degrees away from the mean.
C6_LongitudeNearMean ==
  (cv_pc = "done" /\ cv_conv.format # "XYZ") =>
    LET out == LonOf(cv_conv, cv_csv)
        geo == cartesian_to_geodetic(cv_datum, cv_xyz)[0]
    IN /\ (out - geo) % 360 = 0
       /\ Abs(out - cv_mean) <= 180
       /\ \A k \in (-MaxQuarterTurns)..MaxQuarterTurns :
            Abs(geo + 360 * k - cv_mean) >= Abs(out - cv_mean)

\* A conversion in which the longitude was moved by a full turn.
C6_Witness ==
  /\ cv_pc = "done"
  /\ cv_conv.format = "HEIGHT_LAT_LON"
  /\ LonOf(cv_conv, cv_csv) = cartesian_to_geodetic(cv_datum, cv_xyz)[0] + 360

\* C7: a LAS source whose header has an empty spatial reference string is
\* opened without an error and is marked as having no embedded reference, and
\* the reference its points are handled with is the one the caller supplied.
C7_CallerReferenceUsed ==
  (in_file.kind = "las" /\ in_file.wkt = "" /\ tif_pc \in {"writing", "done"})
    => /\ ~m_has_georef
       /\ m_georef = csv_georef
       /\ \A i \in 1..Len(tiles) : tiles[i].georef = csv_georef

\* C8: after construction the row extent and the column extent of the
\* composite are positive whole multiples of the tile length; the row extent
\* is the least such multiple that holds the requested rows; the column extent
\* is the least such multiple that holds ceil(point_count / rows) points in
\* each of the rows of the composite.
C8_Extents ==
  tif_pc \in {"writing", "done"} =>
    /\ m_rows > 0 /\ m_rows % TILE_LEN = 0
    /\ m_cols > 0 /\ m_cols % TILE_LEN = 0
    /\ m_rows >= num_rows
    /\ (m_rows = TILE_LEN \/ m_rows - TILE_LEN < num_rows)
    /\ m_cols * m_rows >= m_num_points
    /\ (m_cols = TILE_LEN \/ (m_cols - TILE_LEN) * m_rows < m_num_points)

C8_Witness ==
  /\ tif_pc = "writing"
  /\ TILE_LEN = 2 /\ num_rows = 3 /\ m_num_points = 5
  /\ m_rows = 4 /\ m_cols = 2

\* C9: the tiles of one output are produced one after another, in order: no
\* two prerasterize calls on the same reader are in flight at once.
C9_OneTileAtATime ==
  /\ Cardinality(in_flight) <= 1
  /\ \A i \in 1..Len(tiles) : tiles[i].tile = i - 1
  /\ \A t \in in_flight : t = Len(tiles)
  /\ \A i \in 1..Len(tiles) :
       tiles[i].first = IF i = 1 THEN 0 ELSE tiles[i-1].first + tiles[i-1].count

C9_Witness ==
  /\ tif_pc = "writing"
  /\ Len(tiles) >= 2
  /\ tiles[1].count > 0 /\ tiles[2].count > 0
  /\ in_flight # {}

\* The number of the error values given to the accumulator that satisfy P
CountIf(seq, P(_)) == Cardinality({i \in 1..Len(seq) : P(seq[i])})

\* The value the claim C10 gives for the samples and the parameters: with L
\* the number of nonzero samples and k = min(L-1, floor(p/100 * L)), k is an
\* index of the list and the value is f * 4 times the element that has at most
\* k nonzero samples below it and more than k nonzero samples not above it.
ThresholdAsClaimed ==
  LET p == remove_outliers_params[1]
      f == remove_outliers_params[2]
      NonZero(v) == v # 0
      L == CountIf(samples, NonZero)
      k == Min(L - 1, (p * L) \div 100)
  IN /\ est_pc = "done"
     /\ k >= 0 /\ k < L
     /\ \E v \in 1..(val + 1) :
          LET Below(w)    == w # 0 /\ w < v
              NotAbove(w) == w # 0 /\ w <= v
          IN /\ val = v * f * 4
             /\ CountIf(samples, Below) <= k
             /\ CountIf(samples, NotAbove) > k
     /\ (samples = ScenarioC /\ p = 75 /\ f = 3 => val = 96)

\* C10 as amended: for sampled error values of which at least one is not zero,
\* a percentile p in (0,100] and a factor f, the estimator returns
\* sorted[k] * f * 4, where sorted is the ascending list of the nonzero
\* samples, L its length and k = min(L-1, floor(p/100 * L)); k is a valid
\* index; for the samples [0,0,2,4,6,8,10], p = 75, f = 3 the result is 96.
C10_Threshold ==
  (est_pc \in {"done", "ArgumentErr"} /\ \E i \in 1..Len(samples) : samples[i] # 0)
    => ThresholdAsClaimed

\* C10 as stated: the same for every non-empty set of sampled error values.
C10_ThresholdOfAnySamples ==
  (est_pc \in {"done", "ArgumentErr"} /\ samples # << >>) => ThresholdAsClaimed

C10_Witness ==
  /\ est_pc = "done"
  /\ samples = ScenarioC
  /\ remove_outliers_params = <<75, 3>>
  /\ m_vals = <<2, 4, 6, 8, 10>>
  /\ val = 96

-----------------------------------------------------------------------------
(* Properties of the sampling of the error image *)

\* An attempt with the step amt meets a nonzero error.
HasNonzeroSample(amt) ==
  \E px \in DOMAIN error_image :
     px < point_image_cols /\ px % amt = 0 /\ error_image[px] # 0

\* C11: the subsample step never increases from one attempt to the next; the
\* loop stops at the first attempt that yields a nonzero sample; when no
\* attempt yields one the loop does not stop before an attempt with step 1 has
\* been made; the loop ends after a bounded number of attempts.
C11_SamplingLoop ==
  LET n == Len(subsample_steps)
  IN /\ \A i \in 1..(n - 1) : subsample_steps[i] >= subsample_steps[i + 1]
     /\ \A i \in 1..(n - 1) : ~HasNonzeroSample(subsample_steps[i])
     /\ (n > 0 /\ HasNonzeroSample(subsample_steps[n])) => smp_pc # "loop"
     /\ (smp_pc # "loop" /\ \A i \in 1..n : ~HasNonzeroSample(subsample_steps[i]))
          => \E i \in 1..n : subsample_steps[i] = 1
     /\ n <= LAST_COUNT - FIRST_COUNT + 1

\* C12: when every sampling attempt ends without a nonzero sample, outlier
\* rejection by percentile does not go on: the rasterizer is not constructed
\* with outlier removal switched on and a threshold that was never estimated.
C12_NoThresholdNoRejection ==
  (smp_pc = "rasterize" /\ \A i \in 1..Len(subsample_steps) :
                              ~HasNonzeroSample(subsample_steps[i]))
    => ~rasterizer.remove_outliers_with_pct

-----------------------------------------------------------------------------
(* Properties of FillNoDataWithAvg *)

\* The valid cells of the k-by-k window centered on cell (i, j), clipped to
\* the image
ValidInWindow(i, j) ==
  LET h == (m_kernel_size - 1) \div 2
  IN {cell \in (1..Len(m_img)) \X (1..Len(m_img[1])) :
        /\ cell[1] >= i - h /\ cell[1] <= i + h
        /\ cell[2] >= j - h /\ cell[2] <= j + h
        /\ m_img[cell[1]][cell[2]].valid}

RECURSIVE SumOfCells(_)
SumOfCells(cells) ==
  IF cells = {} THEN 0
  ELSE LET cell == CHOOSE q \in cells : TRUE
       IN m_img[cell[1]][cell[2]].num + SumOfCells(cells \ {cell})

\* C13: FillNoDataWithAvg with an odd positive window size gives, for every
\* cell, the input value when the cell is valid, the arithmetic mean of the
\* valid cells of the clipped window when the cell is nodata and the window has
\* a valid cell, and nodata when it has none; the nodata cell among 8 cells of
\* value 10 becomes 10 with a 3x3 window.
C13_FillNoDataWithAvg ==
  fill_pc = "done" =>
    /\ m_kernel_size % 2 = 1 /\ m_kernel_size > 0
    /\ \A i \in 1..Len(m_img) : \A j \in 1..Len(m_img[1]) :
         LET win == ValidInWindow(i, j)
             out == filled[i][j]
         IN IF m_img[i][j].valid THEN out = m_img[i][j]
            ELSE IF win = {} THEN ~out.valid
            ELSE /\ out.valid
                 /\ out.num * Cardinality(win) = SumOfCells(win) * out.den
    /\ (m_img = ScenarioD /\ m_kernel_size = 3)
          => filled[2][2].valid /\ filled[2][2].num = 10 * filled[2][2].den

C13_Witness ==
  /\ fill_pc = "done"
  /\ m_img = Ring
  /\ m_kernel_size = 3
  /\ filled[2][2] = [valid |-> TRUE, num |-> 70, den |-> 5]
  /\ filled[2][3] = [valid |-> TRUE, num |-> 40, den |-> 3]

\* The positions of the file system log at which a tile of an output raster
\* is computed
TilePositions == {j \in 1..Len(io) : io[j].op = "tile"}

\* The LAS and CSV sources of the command line
RawSources == {input_files[k] : k \in {n \in 1..Len(input_files) : is_las_or_csv(input_files[n])}}

\* C14: in every run, before the first tile of an output raster is computed
\* every LAS or CSV source has been read to its end and written out as a
\* temporary point cloud, and from that tile on no LAS or CSV source is touched
\* again, for no tile and for no later spacing.
C14_SourcesConvertedOnce ==
  \A j \in TilePositions :
    /\ \A f \in RawSources :
         \E a \in 1..j, b \in 1..j :
           /\ a < b
           /\ io[a] = Event("read", f)
           /\ io[b] = Event("write", TmpTif(f))
    /\ \A k \in j..Len(io) : ~is_las_or_csv(io[k].file)

C14_Witness ==
  /\ run_pc = "done"
  /\ Cardinality(RawSources) = 2
  /\ Len(outputs) >= 2
  /\ Cardinality(TilePositions) >= 4

\* C15: whatever the interleaving of the workers and the order in which the
\* tiles are written, a written cell of the output raster holds the value the
\* bins and the threshold give it, and the workers leave the bins and the
\* threshold as they found them.
C15_TilesIndependentOfSchedule ==
  /\ \A t \in DOMAIN dem :
       tile_status[t] = "written" => dem[t] = CellOf(bins, max_valid_error, t)
  /\ tile_pc = "done" => \A t \in DOMAIN dem : tile_status[t] = "written"

C15_Witness ==
  /\ tile_pc = "done"
  /\ bins = <<1, 0, 2>>
  /\ max_valid_error = 2
  /\ write_order = <<3, 1, 2>>
  /\ overlapped
  /\ dem[2] = [valid |-> TRUE, num |-> 3, den |-> 2]

\* Two of the point clouds differ in their number of channels
MixedChannels == \E i, j \in DOMAIN channels : channels[i] # channels[j]

Seen(n) == \E k \in DOMAIN channels_seen : channels_seen[k] = n
Written(imgName) == \E k \in DOMAIN written : written[k] = imgName

C16_NoPartialOutput ==
  save_pc = "failed" =>
    \/ output_file = Absent
    \/ \A b \in DOMAIN output_file.blocks : output_file.blocks[b] # "torn"

\* The fatal configuration errors: both --datum and --reference-spheroid, a
\* negative hole-fill length, outlier parameters out of range, a negative
\* spacing, a negative erode length
FatalConfigurationErrors ==
  {"Both --datum and --reference-spheroid were specified",
   "The value of --dem-hole-fill-len must be non-negative",
   "The value of --orthoimage-hole-fill-len must be non-negative",
   "Invalid values were provided for remove-outliers-params",
   "The DEM spacing must be non-negative",
   "Erode length must be non-negative"}

\* C17: a fatal configuration error is reported before the program has made
\* any file system operation: no input file looked at or opened, no output
\* directory and no log file created.
C17_ConfigurationErrorsBeforeIO ==
  run_error \in FatalConfigurationErrors => io = << >>

\* The command line names a LAS or a CSV file
HasRawInput == \E k \in DOMAIN input_files : input_files[k].kind \in {"las", "csv"}

\* The operations that read or write the content of a file
ContentOps == {"read", "read part", "write", "write part", "tile"}

\* The exceptions that are not argument errors: the reader's
ReaderErrors == {"Failed to read line"}

\* C18: a run with a LAS or CSV input and surface sampling asked for never
\* gets past the checks of the arguments: it converts nothing and rasterizes
\* nothing, and it ends with an argument error.
C18_NoSurfaceSamplingOfRawSources ==
  (HasRawInput /\ opt.use_surface_sampling) =>
    /\ run_pc \in {"parse_input_clouds_textures", "check_options", "failed"}
    /\ tmp_tifs = << >>
    /\ outputs = << >>
    /\ \A j \in DOMAIN io : io[j].op \notin ContentOps
    /\ run_pc = "failed" => (run_error # "" /\ run_error \notin ReaderErrors)

C18_Witness ==
  /\ HasRawInput
  /\ opt.use_surface_sampling
  /\ run_pc = "failed"
  /\ run_error = "Cannot use surface sampling with LAS or CSV files"
  /\ opt.has_las_or_csv
  /\ \E k \in DOMAIN input_files : input_files[k].kind = "csv"

\* C20: a finished run has called the rasterization once per spacing, in the
\* order of the list, the first time with the base prefix and the i-th time
\* (i >= 1, from zero) with the base prefix followed by "_" and i, so with
\* prefixes that differ from each other; the prefix option is the base prefix
\* again.
C20_OnePrefixPerSpacing ==
  run_pc = "done" =>
    /\ Len(outputs) = Len(opt.dem_spacing)
    /\ \A n \in DOMAIN outputs :
         /\ outputs[n].spacing = opt.dem_spacing[n]
         /\ outputs[n].out_prefix = IF n = 1 THEN base_out_prefix
                                    ELSE base_out_prefix \o <<"_", n - 1>>
    /\ \A m, n \in DOMAIN outputs : m # n => outputs[m].out_prefix # outputs[n].out_prefix
    /\ opt.out_prefix = base_out_prefix

C20_Witness ==
  /\ run_pc = "done"
  /\ opt.dem_spacing = <<1, 2, 3>>
  /\ Len(outputs) = 3
  /\ outputs[3] = [out_prefix |-> base_out_prefix \o <<"_", 2>>, spacing |-> 3]
  /\ opt.out_prefix = base_out_prefix

\* C22: with the samples and the percentile held fixed, a larger factor never
\* gives a smaller threshold: the threshold the estimator returned is at most
\* the one it returns for any factor that is not smaller, and at least the one
\* it returns for any factor that is not larger.
C22_ThresholdMonotoneInFactor ==
  est_pc = "done" =>
    \A f \in Factors :
      LET other == value(m_vals, <<remove_outliers_params[1], f>>).val
      IN /\ f >= remove_outliers_params[2] => other >= val
         /\ f <= remove_outliers_params[2] => other <= val

C22_Witness ==
  /\ est_pc = "done"
  /\ samples = ScenarioC
  /\ remove_outliers_params = <<75, 1>>
  /\ val = 32
  /\ value(m_vals, <<75, 3>>).val = 96

\* The positions of the file system log at which a temporary point cloud is
\* created, written in full or in part
TmpCreations ==
  {j \in DOMAIN io : io[j].op \in {"write", "write part"} /\ io[j].file.kind = "tmp"}

\* C24: when the run is over, normally or with an error, every temporary point
\* cloud that was created for a LAS or CSV source has been removed.
C24_TemporariesRemoved ==
  run_pc \in {"done", "failed"} =>
    \A j \in TmpCreations :
      \E k \in DOMAIN io : k > j /\ io[k] = Event("remove", io[j].file)

\* The declared fields of a descriptor that are coordinates
CoordinateFields(desc) == {i \in DOMAIN desc : desc[i].name # "file"}

\* The columns of the object that hold a coordinate
CoordinateColumns(c) == {col \in DOMAIN c.col2name : c.col2name[col] # "file"}

\* A field name is declared twice
RepeatedName(desc) == \E i, j \in DOMAIN desc : i # j /\ desc[i].name = desc[j].name

\* C27: after parse_csv_format on a non-empty descriptor no write went outside
\* the name table; when the call succeeded exactly three columns hold a
\* coordinate and col2sort maps them one-to-one onto 0, 1, 2; a descriptor
\* with fewer than three coordinate fields, with four coordinate fields or
\* with a repeated name ended with an argument error.
C27_ThreeCoordinateColumns ==
  (fmt_status # "idle" /\ descriptor # << >>) =>
    /\ fmt_status # "crash"
    /\ fmt_status = "ok" =>
         /\ Cardinality(CoordinateColumns(conv)) = 3
         /\ DOMAIN conv.col2sort = CoordinateColumns(conv)
         /\ {conv.col2sort[col] : col \in CoordinateColumns(conv)} = {0, 1, 2}
    /\ (\/ Cardinality(CoordinateFields(descriptor)) < 3
        \/ Cardinality(CoordinateFields(descriptor)) > 3
        \/ RepeatedName(descriptor)) => fmt_status = "ArgumentErr"

\* C28: whatever the length of the line, parse_csv_line reads no character
\* past the end of its buffer.
C28_NoReadPastBuffer ==
  parsed # NoResult => ~overrun

\* C26: the composite is large enough for its source and loses no point. The
\* part about the text source: the number of points the reader yields is at
\* most the point count csv_file_size gave for the file, from which the
\* composite is sized.
C26_EstimateCoversYield ==
  Len(rd_points) <= csv_file_size(m_file)

\* The file under the final name is whole and has blocks of the given size
WrittenWith(file, block_size) ==
  /\ file # Absent
  /\ file.block_size = block_size
  /\ \A b \in DOMAIN file.blocks : file.blocks[b] = "complete"

\* C29: the raster tile size is changed for the time of the call only. The
\* copy that las_or_csv_to_tif and save_with_temp_big_blocks keep is the tile
\* size on entry and is not touched afterwards; when either function has
\* returned, the tile size of the settings equals that copy; after
\* save_with_temp_big_blocks the file under the final name is whole with
\* blocks of the original size and the temporary file is gone.
C29_TileSizeRestored ==
  /\ [][/\ original_tile_size' = IF tif_pc = "start" /\ tif_pc' # "start"
                                   THEN raster_tile_size ELSE original_tile_size
        /\ orig_block_size' = IF save_pc = "save_image" /\ save_pc' # "save_image"
                               THEN save_tile_size ELSE orig_block_size]_vars
  /\ [](tif_pc = "done" => raster_tile_size = original_tile_size)
  /\ [](save_pc = "done" =>
          /\ save_tile_size = orig_block_size
          /\ WrittenWith(output_file, orig_block_size)
          /\ big_tmp_file = Absent)

\* Both functions have returned, each after a real change of the tile size:
\* the conversion ran with another tile length, the raster was written twice.
C29_Witness ==
  /\ tif_pc = "done"
  /\ raster_tile_size # TILE_LEN
  /\ tiles # << >>
  /\ save_pc = "done"
  /\ orig_block_size # BigBlockSize(hole_fill_len)

\* C30: round_image_pixels_skip_nodata returns a pixel unchanged when the step
\* is zero or negative or when a channel of the pixel equals the nodata
\* value; otherwise every channel of the result is a whole multiple of the
\* step, and no multiple of the step is nearer to the channel it came from.
C30_RoundingSkipsNodata ==
  round_pc = "done" =>
    /\ m_scale <= 0 => rounded = round_pt
    /\ (\E c \in DOMAIN round_pt : round_pt[c] = m_nodata) => rounded = round_pt
    /\ (m_scale > 0 /\ \A c \in DOMAIN round_pt : round_pt[c] # m_nodata) =>
         /\ DOMAIN rounded = DOMAIN round_pt
         /\ \A c \in DOMAIN rounded :
              /\ rounded[c] % m_scale = 0
              /\ 2 * Abs(rounded[c] - round_pt[c]) <= m_scale

\* A pixel of three valid channels was moved by the rounding
C30_Witness ==
  /\ round_pc = "done"
  /\ m_scale > 1
  /\ Len(round_pt) = 3
  /\ \A c \in DOMAIN round_pt : round_pt[c] # m_nodata
  /\ rounded # round_pt

\* The user asked for the absolute threshold and the run is over
AbsoluteThresholdRun ==
  chan_pc = "done" /\ user_opt.max_valid_triangulation_error > 0

\* C23 as stated: with a positive absolute threshold the percentage flag is
\* cleared, the sampling pass never runs, the estimate stays 0 and the
\* rasterizer is handed the user's threshold.
C23_AbsoluteThresholdHanded ==
  AbsoluteThresholdRun =>
    /\ ~rasterizer_args.remove_outliers_with_pct
    /\ ~sampling_ran
    /\ rasterizer_args.estim_max_error = 0
    /\ rasterizer_args.max_valid_triangulation_error
         = user_opt.max_valid_triangulation_error

\* The clouds have an error channel: 4 or 6 channels each
HaveErrorChannel ==
  \/ \A i \in DOMAIN channels : channels[i] = 4
  \/ \A i \in DOMAIN channels : channels[i] = 6

\* C23, amended: with a positive absolute threshold the percentage flag is
\* cleared, the sampling pass never runs and the estimate stays 0; the
\* rasterizer is handed the user's threshold when the clouds have 4 or 6
\* channels each, and 0 otherwise.
C23_AbsoluteThresholdOverrides ==
  AbsoluteThresholdRun =>
    /\ ~rasterizer_args.remove_outliers_with_pct
    /\ ~sampling_ran
    /\ rasterizer_args.estim_max_error = 0
    /\ rasterizer_args.max_valid_triangulation_error
         = IF HaveErrorChannel THEN user_opt.max_valid_triangulation_error ELSE 0

\* Both options were given for clouds with an error channel, and the
\* rasterizer got the threshold
C23_Witness ==
  /\ AbsoluteThresholdRun
  /\ user_opt.remove_outliers_with_pct
  /\ HaveErrorChannel
  /\ rasterizer_args.max_valid_triangulation_error > 0

\* The DEM a run with the one spacing would save: a rasterizer constructed
\* and configured anew, the options and the rounding step as on entry
SingleSpacingDEM(spacing) ==
  do_software_rasterization(sp_cloud,
                            initialize_spacing(ConfigureRasterizer(NewRasterizer, sp_opt),
                                               spacing),
                            sp_opt, 1).images[1]

\* C25: every DEM saved in a run with several spacings is the DEM a run with
\* that spacing alone saves, whatever was saved for the spacings before it.
C25_SpacingsIndependent ==
  \A k \in DOMAIN sp_images :
    sp_images[k].image.name = "DEM" =>
      sp_images[k].image = SingleSpacingDEM(sp_opt.dem_spacing[sp_images[k].i])

\* The positions of the cells of a saved image that no point is near
EmptyCells(img) ==
  {k \in DOMAIN img.raster :
     PointsNear(sp_cloud, k * img.spacing, img.spacing \div 2) = {}}

=============================================================================
